---- MODULE Spec2Model ----
(***************************************************************************)
(* Model of the analytical core of portfolio_tracker: the FIFO lot matcher *)
(* (create_transaction_matches), the dividend allocator                    *)
(* (allocate_dividends) and the realized gain aggregator                   *)
(* (calculate_realized_gains), working on the tables transaction_t,        *)
(* transaction_match_t, dividend_allocation_t and realized_gain_t.         *)
(*                                                                         *)
(* Share counts are integers; money is an exact rational <<num, den>>.     *)
(* One group key stands for one (broker_id, security_id) pair, numbered in *)
(* the order ORDER BY broker_id, security_id lists them.                   *)
(***************************************************************************)
EXTENDS Integers, Sequences, FiniteSets, TLC

VARIABLES
    txs,      \* transaction_t: row i is the row with id = i
    matches,  \* transaction_match_t, in id (insertion) order
    allocs,   \* dividend_allocation_t, in id (insertion) order
    gains,    \* realized_gain_t, in id (insertion) order
    last      \* the last operation run and the statistics it returned

vars == <<txs, matches, allocs, gains, last>>

----------------------------------------------------------------------------
(* Bounds of the model *)

MaxTx == 3            \* buy and sell rows ingested into transaction_t
MaxDividends == 2     \* dividend rows ingested into transaction_t
MaxTradesHeld == 2    \* buy and sell rows of a ledger that receives dividends
MaxDividendsHeld == 1 \* dividend rows of a ledger on which runs are stopped
MaxIncome == 1        \* interest and distribution rows ingested into transaction_t
MaxFlows == 3         \* cash flows in a list handed to _xirr_from_cashflows
MaxPower == 2         \* largest d for which x ** d is worked out (years = n / d)
MaxDegree == 4        \* largest n for which an n-th root is worked out
MaxRoot == 32         \* largest numerator and denominator of a root that is worked out

----------------------------------------------------------------------------
(* SQL NULL / Python None, and values that may be NULL *)

Null == <<>>
Some(v) == <<v>>
Val(x) == x[1]

Abs(x) == IF x < 0 THEN -x ELSE x
Min(a, b) == IF a <= b THEN a ELSE b
Max(a, b) == IF a >= b THEN a ELSE b

----------------------------------------------------------------------------
(* Exact rationals <<n, d>>, d > 0, in lowest terms *)

RECURSIVE GCD(_, _)
GCD(a, b) == IF b = 0 THEN a ELSE GCD(b, a % b)

Rat(n, d) ==
    LET s == IF d < 0 THEN -1 ELSE 1
        g == GCD(Abs(n), Abs(d))
    IN  IF n = 0 THEN <<0, 1>> ELSE <<(s * n) \div g, (s * d) \div g>>

RInt(n) == <<n, 1>>
RZero == <<0, 1>>
RAdd(p, q) == Rat(p[1] * q[2] + q[1] * p[2], p[2] * q[2])
RNeg(p) == <<-p[1], p[2]>>
RSub(p, q) == RAdd(p, RNeg(q))
RMul(p, q) == Rat(p[1] * q[1], p[2] * q[2])
RDiv(p, q) == Rat(p[1] * q[2], p[2] * q[1])
RAbs(p) == <<Abs(p[1]), p[2]>>
RLt(p, q) == p[1] * q[2] < q[1] * p[2]
RLe(p, q) == p[1] * q[2] <= q[1] * p[2]

RECURSIVE RSum(_)
RSum(s) == IF s = <<>> THEN RZero ELSE RAdd(Head(s), RSum(Tail(s)))

RECURSIVE ISum(_)
ISum(s) == IF s = <<>> THEN 0 ELSE Head(s) + ISum(Tail(s))

(* FLOAT_TOLERANCE = 1e-9: every quantity compared with it is an integer  *)
(* share count here, so "x <= FLOAT_TOLERANCE" is "x <= 0" and            *)
(* "x > FLOAT_TOLERANCE" is "x > 0".                                      *)
LeTol(x) == x <= 0
GtTol(x) == x > 0

(* Lexicographic order on integer tuples of one length *)
RECURSIVE LexLess(_, _)
LexLess(a, b) ==
    IF a = <<>> \/ b = <<>> THEN FALSE
    ELSE \/ Head(a) < Head(b)
         \/ Head(a) = Head(b) /\ LexLess(Tail(a), Tail(b))

(* The elements of S in ascending order of key[x] (keys are distinct) *)
RECURSIVE SortByKey(_, _)
SortByKey(S, key) ==
    IF S = {} THEN <<>>
    ELSE LET m == CHOOSE x \in S : \A y \in S \ {x} : LexLess(key[x], key[y])
         IN  <<m>> \o SortByKey(S \ {m}, key)

(* The element of a singleton set. The({e : x \in {v}}) is e with x the     *)
(* value of v, which TLC then works out once however often e refers to x.  *)
The(S) == CHOOSE r \in S : TRUE

(* A date as a sort key: SQLite orders NULL before every value *)
DateKey(d) == IF d = Null THEN 0 ELSE Val(d)

----------------------------------------------------------------------------
(* portfolio_xirr._coalesce_amount: the best available monetary value *)

CoalesceTotalValue(row, prefer_net) ==
    IF row.total_value # Null THEN RInt(Val(row.total_value))
    ELSE IF prefer_net /\ row.net_amount # Null THEN RInt(Val(row.net_amount))
    ELSE IF row.price_per_share # Null /\ row.shares # 0
         THEN RInt(Val(row.price_per_share) * row.shares)
    ELSE RZero

CoalesceAmount(row, prefer_net) ==
    IF prefer_net /\ row.net_amount # Null THEN RInt(Val(row.net_amount))
    ELSE IF row.total_value # Null THEN RInt(Val(row.total_value))
    ELSE IF row.price_per_share # Null /\ row.shares # 0
         THEN RInt(Val(row.price_per_share) * row.shares)
    ELSE RZero

(* create_transaction_matches._abs_float on the shares column *)
AbsFloat(value) == Abs(value)

----------------------------------------------------------------------------
(* Rows of transaction_t *)

TxIds == DOMAIN txs
GroupKey(row) == row.group_key

NewTx(type, key, dt, shares, total_value) ==
    [transaction_type |-> type, group_key |-> key, transaction_date |-> dt,
     shares |-> shares, price_per_share |-> Null, total_value |-> total_value,
     fees |-> Null, net_amount |-> Null,
     used_in_realized_gain |-> FALSE, allocated |-> FALSE,
     error_message |-> Null]

(* ORDER BY transaction_date, id  /  sorted(key=(_to_date(date), id)) on    *)
(* rows whose date is not NULL                                             *)
DateIdBefore(i, j) ==
    \/ Val(txs[i].transaction_date) < Val(txs[j].transaction_date)
    \/ /\ Val(txs[i].transaction_date) = Val(txs[j].transaction_date)
       /\ i < j

RECURSIVE SortByDateId(_)
SortByDateId(S) ==
    IF S = {} THEN <<>>
    ELSE LET m == CHOOSE i \in S : \A j \in S \ {i} : DateIdBefore(i, j)
         IN  <<m>> \o SortByDateId(S \ {m})

----------------------------------------------------------------------------
(* create_transaction_matches *)

(* _load_existing_allocations: SUM(shares) of the Match rows of ms whose   *)
(* column col holds id (0 when there is none)                              *)
RECURSIVE LoadExistingAllocations(_, _, _)
LoadExistingAllocations(ms, col, id) ==
    IF ms = <<>> THEN 0
    ELSE (IF Head(ms)[col] = id THEN Head(ms).shares ELSE 0)
         + LoadExistingAllocations(Tail(ms), col, id)

(* The SELECT of buy/sell rows: dated, and unused under only_unused *)
TradeRows(only_unused) ==
    {i \in TxIds :
        /\ txs[i].transaction_type \in {"buy", "sell"}
        /\ txs[i].transaction_date # Null
        /\ (only_unused => ~txs[i].used_in_realized_gain)}

SharesRemainingOfFreshLot(ms, buy_id) == AbsFloat(txs[buy_id].shares)

(* shares_remaining = shares - allocated of one buy row *)
SharesRemaining(ms, buy_id) ==
    AbsFloat(txs[buy_id].shares)
    - LoadExistingAllocations(ms, "buy_transaction_id", buy_id)

SharesToMatchOfFreshSell(ms, sell_id) == AbsFloat(txs[sell_id].shares)

(* shares_to_match = sell_shares_total - already_matched of one sell row *)
SharesToMatch(ms, sell_id) ==
    AbsFloat(txs[sell_id].shares)
    - LoadExistingAllocations(ms, "sell_transaction_id", sell_id)

(* The queue of BuyLots of one group: the sorted buys with shares > 0 and  *)
(* shares_remaining above the tolerance                                    *)
RECURSIVE BuildBuyLots(_, _)
BuildBuyLots(ms, buys) ==
    IF buys = <<>> THEN <<>>
    ELSE LET b == Head(buys)
             shares == AbsFloat(txs[b].shares)
             rest == BuildBuyLots(ms, Tail(buys))
         IN  IF shares <= 0 \/ LeTol(SharesRemaining(ms, b)) THEN rest
             ELSE <<[tx_id |-> b,
                     shares_remaining |-> SharesRemaining(ms, b),
                     cost_per_share |->
                         RDiv(RAbs(CoalesceAmount(txs[b], TRUE)), RInt(shares))]>>
                  \o rest

NewestLot(buy_lots) == Len(buy_lots)

(* lot = buy_lots[0] *)
FrontLot(buy_lots) == 1

(* The INSERT of one allocation *)
MatchRow(lot, sell_id, matched_shares) ==
    LET sell_shares_total == AbsFloat(txs[sell_id].shares)
        proceeds_per_share ==
            RDiv(RAbs(CoalesceAmount(txs[sell_id], TRUE)), RInt(sell_shares_total))
        sell_fees_total ==
            IF txs[sell_id].fees = Null THEN 0 ELSE Abs(Val(txs[sell_id].fees))
        sell_fee_per_share == RDiv(RInt(sell_fees_total), RInt(sell_shares_total))
    IN  [group_key |-> GroupKey(txs[sell_id]),
         buy_transaction_id |-> lot.tx_id,
         sell_transaction_id |-> sell_id,
         shares |-> matched_shares,
         allocated_cost |-> RMul(lot.cost_per_share, RInt(matched_shares)),
         allocated_proceeds |-> RMul(proceeds_per_share, RInt(matched_shares)),
         allocated_fees |-> RMul(sell_fee_per_share, RInt(matched_shares))]

(* while shares_to_match > FLOAT_TOLERANCE and buy_lots: ...               *)
RECURSIVE MatchSell(_, _, _, _)
MatchSell(buy_lots, sell_id, shares_to_match, out) ==
    IF GtTol(shares_to_match) /\ buy_lots # <<>>
    THEN LET k == FrontLot(buy_lots)
             lot == buy_lots[k]
             matched_shares == Min(shares_to_match, lot.shares_remaining)
             left == lot.shares_remaining - matched_shares
             others == SubSeq(buy_lots, 1, k - 1)
                       \o SubSeq(buy_lots, k + 1, Len(buy_lots))
             lots2 == IF LeTol(left) THEN others
                      ELSE [buy_lots EXCEPT ![k].shares_remaining = left]
         IN  MatchSell(lots2, sell_id, shares_to_match - matched_shares,
                       Append(out, MatchRow(lot, sell_id, matched_shares)))
    ELSE [buy_lots |-> buy_lots, out |-> out, left |-> shares_to_match]

DropUnmatched(unmatched, shares_to_match) == unmatched

(* if shares_to_match > FLOAT_TOLERANCE: unmatched_sell_shares += ...      *)
AddUnmatched(unmatched, shares_to_match) ==
    IF GtTol(shares_to_match) THEN unmatched + shares_to_match ELSE unmatched

(* for sell_row in sells: ... of one group; ms is the table the group's    *)
(* existing allocations were loaded from                                   *)
RECURSIVE MatchSells(_, _, _, _, _)
MatchSells(ms, buy_lots, sells, out, unmatched) ==
    IF sells = <<>> THEN [out |-> out, unmatched |-> unmatched]
    ELSE LET s == Head(sells)
             sell_shares_total == AbsFloat(txs[s].shares)
             shares_to_match == SharesToMatch(ms, s)
         IN  IF sell_shares_total <= 0 \/ LeTol(shares_to_match)
             THEN MatchSells(ms, buy_lots, Tail(sells), out, unmatched)
             ELSE LET r == MatchSell(buy_lots, s, shares_to_match, out)
                  IN  MatchSells(ms, r.buy_lots, Tail(sells), r.out,
                                 AddUnmatched(unmatched, r.left))

(* for (broker_id, security_id), parts in grouped.items(): ...             *)
RECURSIVE MatchGroups(_, _, _, _, _)
MatchGroups(rows, keys, ms, out, unmatched) ==
    IF keys = {} THEN [out |-> out, unmatched |-> unmatched]
    ELSE LET key == CHOOSE k \in keys : \A k2 \in keys : k <= k2
             buys == SortByDateId({i \in rows :
                        txs[i].transaction_type = "buy" /\ GroupKey(txs[i]) = key})
             sells == SortByDateId({i \in rows :
                        txs[i].transaction_type = "sell" /\ GroupKey(txs[i]) = key})
             table == ms \o out
             r == MatchSells(table, BuildBuyLots(table, buys), sells, out, unmatched)
         IN  MatchGroups(rows, keys \ {key}, ms, r.out, r.unmatched)

(* The rows a run finds in the table after its DELETE *)
ClearedTable(clear_existing) == IF clear_existing THEN <<>> ELSE matches

(* row["price_per_share"] in _coalesce_amount: the matcher's SELECT has no *)
(* price_per_share column, so reaching the fallback raises IndexError.     *)
(* That happens for a selected buy with shares > 0, or a selected sell     *)
(* with shares still to match, whose net_amount and total_value are NULL.  *)
MatcherRaises(rows, base) ==
    \E i \in rows :
        /\ txs[i].net_amount = Null
        /\ txs[i].total_value = Null
        /\ AbsFloat(txs[i].shares) > 0
        /\ \/ txs[i].transaction_type = "buy"
           \/ /\ txs[i].transaction_type = "sell"
              /\ GtTol(SharesToMatch(base, i))

(* History for the claims about two runs in a row: whether the operation   *)
(* before this run was a matcher run too, and over which rows              *)
PreviousRun ==
    IF last.op # "match" THEN "other"
    ELSE IF last.only_unused THEN "match_unused" ELSE "match_all"

(* One run.  With no buy/sell row selected the connection is closed        *)
(* without a commit, which rolls the DELETE of clear_existing back; an     *)
(* exception leaves the run uncommitted as well.                           *)
CreateTransactionMatches(clear_existing, only_unused) ==
    LET rows == TradeRows(only_unused)
        base == ClearedTable(clear_existing)
        keys == {GroupKey(txs[i]) : i \in rows}
        r == MatchGroups(rows, keys, base, <<>>, 0)
        stats(raised, created, unmatched, groups) ==
            [op |-> "match", clear_existing |-> clear_existing,
             only_unused |-> only_unused, raised |-> raised,
             previous_run |-> PreviousRun,
             matches_created |-> created,
             unmatched_sell_shares |-> unmatched,
             groups_processed |-> groups]
    IN  IF rows = {}
        THEN /\ matches' = matches
             /\ last' = stats(FALSE, 0, 0, 0)
             /\ UNCHANGED <<txs, allocs, gains>>
        ELSE IF MatcherRaises(rows, base)
        THEN /\ matches' = matches
             /\ last' = stats(TRUE, 0, 0, 0)
             /\ UNCHANGED <<txs, allocs, gains>>
        ELSE /\ matches' = base \o r.out
             /\ last' = stats(FALSE, Len(r.out), r.unmatched, Cardinality(keys))
             /\ UNCHANGED <<txs, allocs, gains>>

RunMatcher == \E c \in BOOLEAN, u \in BOOLEAN : CreateTransactionMatches(c, u)

----------------------------------------------------------------------------
(* calculate_realized_gains *)

(* SUM(m.shares) of the Match rows of one sell *)
MatchedSellShares(sell_id) ==
    LoadExistingAllocations(matches, "sell_transaction_id", sell_id)

EligibleSellIdsPartlyMatched ==
    {s \in TxIds :
        /\ txs[s].transaction_type = "sell"
        /\ ~txs[s].used_in_realized_gain
        /\ Abs(txs[s].shares) > 0
        /\ MatchedSellShares(s) > 0}

(* The unused sells that are fully allocated in transaction_match_t *)
EligibleSellIds ==
    {s \in TxIds :
        /\ txs[s].transaction_type = "sell"
        /\ ~txs[s].used_in_realized_gain
        /\ Abs(txs[s].shares) > 0
        /\ MatchedSellShares(s) >= Abs(txs[s].shares)}

(* The Match rows of the eligible sells, ORDER BY broker_id, security_id,  *)
(* sell date, buy date, m.id                                               *)
EligibleMatchRows(eligible) ==
    LET idx == {k \in DOMAIN matches : matches[k].sell_transaction_id \in eligible}
        key == [k \in idx |->
                  <<matches[k].group_key,
                    DateKey(txs[matches[k].sell_transaction_id].transaction_date),
                    DateKey(txs[matches[k].buy_transaction_id].transaction_date),
                    k>>]
    IN  SortByKey(idx, key)

AggKeyByBuyDate(group_key, buy_date, sell_date) ==
    <<group_key, DateKey(buy_date), 0>>

(* agg_key = (broker_id, security_id, buy_date, sell_date) *)
AggKey(group_key, buy_date, sell_date) ==
    <<group_key, DateKey(buy_date), DateKey(sell_date)>>

(* The aggregation loop: order is the insertion order of the agg_keys,     *)
(* pos maps each agg_key <<group, buy_date, sell_date>> to its position    *)
RECURSIVE AggregatePositions(_, _, _)
AggregatePositions(rows, order, pos) ==
    IF rows = <<>> THEN [order |-> order, pos |-> pos]
    ELSE LET m == matches[Head(rows)]
             buy_date == txs[m.buy_transaction_id].transaction_date
             sell_date == txs[m.sell_transaction_id].transaction_date
             matched_shares == Abs(m.shares)
             realized_pl == RSub(m.allocated_proceeds, m.allocated_cost)
             agg_key == AggKey(m.group_key, buy_date, sell_date)
             fresh == [group_key |-> m.group_key,
                       buy_date |-> Val(buy_date), sell_date |-> Val(sell_date),
                       shares |-> 0, invested_value |-> RZero,
                       realized_pl |-> RZero, total_dividend |-> RZero,
                       dividend_count |-> 0]
             old == IF agg_key \in DOMAIN pos THEN pos[agg_key] ELSE fresh
             new == [old EXCEPT !.shares = @ + matched_shares,
                                !.invested_value = RAdd(@, m.allocated_cost),
                                !.realized_pl = RAdd(@, realized_pl)]
         IN  IF buy_date = Null \/ sell_date = Null \/ matched_shares <= 0
             THEN AggregatePositions(Tail(rows), order, pos)
             ELSE AggregatePositions(
                      Tail(rows),
                      IF agg_key \in DOMAIN pos THEN order ELSE Append(order, agg_key),
                      [k \in DOMAIN pos \cup {agg_key} |->
                          IF k = agg_key THEN new ELSE pos[k]])

(* The unused dated dividends of one group, ORDER BY transaction_date, id *)
UnusedDividends(key) ==
    SortByDateId({d \in TxIds :
        /\ txs[d].transaction_type = "dividend"
        /\ ~txs[d].used_in_realized_gain
        /\ GroupKey(txs[d]) = key
        /\ txs[d].transaction_date # Null})

(* for position in eligible_positions: ... of one dividend *)
RECURSIVE AssignToPositions(_, _, _, _, _)
AssignToPositions(eligible, pos, per_share_amount, shares_left, distributed) ==
    IF eligible = <<>> \/ shares_left <= 0
    THEN [pos |-> pos, shares_left |-> shares_left, distributed |-> distributed]
    ELSE LET k == Head(eligible)
             shares == pos[k].shares
             assign_shares == Min(shares, shares_left)
             allocation == RMul(RInt(assign_shares), per_share_amount)
         IN  IF shares <= 0
             THEN AssignToPositions(Tail(eligible), pos, per_share_amount,
                                    shares_left, distributed)
             ELSE AssignToPositions(
                      Tail(eligible),
                      [pos EXCEPT ![k].total_dividend = RAdd(@, allocation),
                                  ![k].dividend_count =
                                      IF assign_shares > 0 THEN @ + 1 ELSE @],
                      per_share_amount, shares_left - assign_shares,
                      RAdd(distributed, allocation))

(* for dividend in dividends: ... over the sorted positions of one group *)
RECURSIVE MatchDividends(_, _, _, _)
MatchDividends(dividends, sorted_positions, pos, used) ==
    IF dividends = <<>> THEN [pos |-> pos, used |-> used]
    ELSE LET d == Head(dividends)
             div_date == Val(txs[d].transaction_date)
             amount == CoalesceAmount(txs[d], FALSE)
             eligible_idx == {i \in DOMAIN sorted_positions :
                                /\ pos[sorted_positions[i]].buy_date <= div_date
                                /\ div_date <= pos[sorted_positions[i]].sell_date}
             eligible_positions ==
                 [i \in 1..Cardinality(eligible_idx) |->
                     sorted_positions[
                         CHOOSE j \in eligible_idx :
                             Cardinality({j2 \in eligible_idx : j2 < j}) = i - 1]]
             declared_shares == Abs(txs[d].shares)
             eligible_share_sum ==
                 ISum([i \in DOMAIN eligible_positions |->
                          pos[eligible_positions[i]].shares])
             total_shares == IF declared_shares > 0 THEN declared_shares
                             ELSE eligible_share_sum
             per_share_amount == RDiv(amount, RInt(total_shares))
             r == AssignToPositions(eligible_positions, pos, per_share_amount,
                                    total_shares, RZero)
             lastk == eligible_positions[Len(eligible_positions)]
             pos2 == IF r.shares_left > 0 /\ RLt(r.distributed, amount)
                     THEN [r.pos EXCEPT ![lastk].total_dividend =
                              RAdd(@, RSub(amount, r.distributed))]
                     ELSE r.pos
         IN  IF amount = RZero \/ eligible_idx = {} \/ total_shares <= 0
             THEN MatchDividends(Tail(dividends), sorted_positions, pos, used)
             ELSE MatchDividends(Tail(dividends), sorted_positions, pos2,
                                 used \cup {d})

(* for key, positions in positions_by_security.items(): ... *)
RECURSIVE MatchDividendsByGroup(_, _, _)
MatchDividendsByGroup(keys, pos, used) ==
    IF keys = {} THEN [pos |-> pos, used |-> used]
    ELSE LET key == CHOOSE k \in keys : \A k2 \in keys : k <= k2
             mine == {a \in DOMAIN pos : a[1] = key}
             sorted_positions == SortByKey(mine, [a \in mine |-> <<a[2], a[3]>>])
             r == MatchDividends(UnusedDividends(key), sorted_positions, pos, used)
         IN  MatchDividendsByGroup(keys \ {key}, r.pos, r.used)

(* base ** n for a natural number n *)
RECURSIVE RPower(_, _)
RPower(base, n) == IF n = 0 THEN RInt(1) ELSE RMul(base, RPower(base, n - 1))

(* x ** (1 / years) for x >= 0 and years = n / d > 0: the rational r >= 0  *)
(* with r ** n = x ** d.  It is worked out for x = 0, x = 1 and, when      *)
(* d <= MaxPower, for a root whose numerator and denominator are at most   *)
(* MaxRoot; otherwise (an irrational root among them) it is Null and the   *)
(* result stays symbolic.                                                  *)
RationalRoot(x, years) ==
    IF x = RZero \/ x = RInt(1) THEN Some(x)
    ELSE IF years[2] > MaxPower \/ years[1] > MaxDegree THEN Null
    ELSE LET target == RPower(x, years[2])
             roots == {r \in (0..MaxRoot) \X (1..MaxRoot) :
                          /\ GCD(r[1], r[2]) = 1
                          /\ RPower(r, years[1]) = target}
         IN  IF roots = {} THEN Null ELSE Some(CHOOSE r \in roots : TRUE)

CalculateCagrWithoutRoot(initial_value, final_value, years) ==
    IF RLe(initial_value, RZero) \/ RLe(years, RZero)
    THEN [kind |-> "zero", value |-> Some(RZero)]
    ELSE IF RLe(final_value, RZero)
         THEN [kind |-> "loss", years |-> years,
               ratio |-> RDiv(RAbs(final_value), initial_value),
               value |-> Some(RMul(RInt(-100),
                                   RSub(RInt(1), RDiv(RAbs(final_value), initial_value))))]
    ELSE [kind |-> "growth", years |-> years,
          ratio |-> RDiv(final_value, initial_value),
          value |-> Some(RMul(RSub(RDiv(final_value, initial_value), RInt(1)),
                              RInt(100)))]

(* _calculate_cagr:                                                        *)
(*   zero   : 0.0                                                          *)
(*   loss   : -100 * (1 - ratio ** (1 / years))                            *)
(*   growth : (ratio ** (1 / years) - 1) * 100                             *)
(* value is Null where the root is not worked out.                         *)
CalculateCagr(initial_value, final_value, years) ==
    IF RLe(initial_value, RZero) \/ RLe(years, RZero)
    THEN [kind |-> "zero", value |-> Some(RZero)]
    ELSE IF RLe(final_value, RZero)
         THEN The({[kind |-> "loss", years |-> years, ratio |-> ratio,
                    value |-> IF root = Null THEN Null
                              ELSE Some(RMul(RInt(-100), RSub(RInt(1), Val(root))))]
                      : ratio \in {RDiv(RAbs(final_value), initial_value)},
                        root \in {RationalRoot(RDiv(RAbs(final_value), initial_value),
                                               years)}})
    ELSE The({[kind |-> "growth", years |-> years, ratio |-> ratio,
               value |-> IF root = Null THEN Null
                         ELSE Some(RMul(RSub(Val(root), RInt(1)), RInt(100)))]
                 : ratio \in {RDiv(final_value, initial_value)},
                   root \in {RationalRoot(RDiv(final_value, initial_value), years)}})

(* holding_years = max((sell_date - buy_date).days / 365.25, 0.0) *)
HoldingYears(buy_date, sell_date) == Rat(4 * Max(sell_date - buy_date, 0), 1461)

(* One row of the INSERT INTO realized_gain_t *)
GainRow(position) ==
    [group_key |-> position.group_key,
     shares |-> position.shares,
     invested_value |-> position.invested_value,
     buy_date |-> position.buy_date,
     sell_date |-> position.sell_date,
     p_l |-> position.realized_pl,
     total_dividend |-> position.total_dividend,
     dividend_count |-> position.dividend_count,
     cagr_percentage |->
         CalculateCagr(position.invested_value,
                       RAdd(RAdd(position.invested_value, position.realized_pl),
                            position.total_dividend),
                       HoldingYears(position.buy_date, position.sell_date))]

RECURSIVE InsertPayload(_, _)
InsertPayload(order, pos) ==
    IF order = <<>> THEN <<>>
    ELSE (IF pos[Head(order)].shares > 0 THEN <<GainRow(pos[Head(order)])>>
          ELSE <<>>)
         \o InsertPayload(Tail(order), pos)

(* The unused buys whose Match rows to the sells of this run cover all     *)
(* their shares                                                            *)
FullyAllocatedBuysOfThisRun(eligible) ==
    {b \in TxIds :
        /\ txs[b].transaction_type = "buy"
        /\ ~txs[b].used_in_realized_gain
        /\ Abs(txs[b].shares) > 0
        /\ ISum([k \in 1..Len(matches) |->
                   IF /\ matches[k].buy_transaction_id = b
                      /\ matches[k].sell_transaction_id \in eligible
                   THEN matches[k].shares ELSE 0]) >= Abs(txs[b].shares)}

(* The unused buys whose Match rows to sells that are used, or processed   *)
(* in this run, cover all their shares                                     *)
FullyAllocatedBuys(eligible) ==
    {b \in TxIds :
        /\ txs[b].transaction_type = "buy"
        /\ ~txs[b].used_in_realized_gain
        /\ Abs(txs[b].shares) > 0
        /\ LET idx == {k \in DOMAIN matches :
                         /\ matches[k].buy_transaction_id = b
                         /\ \/ txs[matches[k].sell_transaction_id].used_in_realized_gain
                            \/ matches[k].sell_transaction_id \in eligible}
               rows == SortByKey(idx, [k \in idx |-> <<k>>])
           IN  /\ idx # {}
               /\ ISum([i \in DOMAIN rows |-> matches[rows[i]].shares])
                     >= Abs(txs[b].shares)}

UsedTransactionIdsWithoutSells(dividend_ids, eligible) ==
    dividend_ids \cup FullyAllocatedBuys(eligible)

(* used_transaction_ids: the dividends matched to a position, the eligible *)
(* sells and the buys they use up                                          *)
UsedTransactionIds(dividend_ids, eligible) ==
    dividend_ids \cup eligible \cup FullyAllocatedBuys(eligible)

MarkUsedAndAllocated(tx, ids) ==
    [i \in DOMAIN tx |->
        IF i \in ids
        THEN [tx[i] EXCEPT !.used_in_realized_gain = TRUE, !.allocated = TRUE]
        ELSE tx[i]]

(* UPDATE transaction_t SET used_in_realized_gain = 1 WHERE id IN (...) *)
MarkUsed(tx, ids) ==
    [i \in DOMAIN tx |->
        IF i \in ids THEN [tx[i] EXCEPT !.used_in_realized_gain = TRUE]
        ELSE tx[i]]

(* One run; previous_op records the operation that came before it *)
CalculateRealizedGains ==
    LET eligible == EligibleSellIds
        match_rows == EligibleMatchRows(eligible)
        agg == AggregatePositions(match_rows, <<>>, <<>>)
        div == MatchDividendsByGroup({a[1] : a \in DOMAIN agg.pos}, agg.pos, {})
        insert_payload == InsertPayload(agg.order, div.pos)
        used_transaction_ids == UsedTransactionIds(div.used, eligible)
    IN  IF eligible = {} \/ match_rows = <<>>
        THEN /\ last' = [op |-> "gains", previous_op |-> last.op,
                         positions_created |-> 0,
                         transactions_marked |-> 0, eligible_sell_ids |-> {}]
             /\ UNCHANGED <<txs, matches, allocs, gains>>
        ELSE /\ gains' = gains \o insert_payload
             /\ txs' = MarkUsed(txs, used_transaction_ids)
             /\ last' = [op |-> "gains", previous_op |-> last.op,
                         positions_created |-> Len(insert_payload),
                         transactions_marked |-> Cardinality(used_transaction_ids),
                         eligible_sell_ids |-> eligible]
             /\ UNCHANGED <<matches, allocs>>

----------------------------------------------------------------------------
(* allocate_dividends *)

(* date.max, the sort key of an open-ended segment *)
DateMax == 9999

(* _load_match_segments: the Match rows ORDER BY broker_id, security_id,   *)
(* buy date, sell date, m.id that yield a HoldingSegment                   *)
MatchSegmentRows ==
    LET idx == {k \in DOMAIN matches :
                  /\ GtTol(Abs(matches[k].shares))
                  /\ txs[matches[k].buy_transaction_id].transaction_date # Null
                  /\ txs[matches[k].sell_transaction_id].transaction_date # Null}
        key == [k \in idx |->
                  <<matches[k].group_key,
                    DateKey(txs[matches[k].buy_transaction_id].transaction_date),
                    DateKey(txs[matches[k].sell_transaction_id].transaction_date),
                    k>>]
    IN  SortByKey(idx, key)

MatchSegment(k) ==
    [buy_transaction_id |-> matches[k].buy_transaction_id,
     group_key |-> matches[k].group_key,
     buy_date |-> Val(txs[matches[k].buy_transaction_id].transaction_date),
     sell_date |-> txs[matches[k].sell_transaction_id].transaction_date,
     shares |-> Abs(matches[k].shares)]

(* matched_shares[buy_id]: the shares of the segments of one buy *)
SegmentMatchedShares(buy_id) ==
    The({ISum([i \in DOMAIN rows |->
                  IF matches[rows[i]].buy_transaction_id = buy_id
                  THEN Abs(matches[rows[i]].shares) ELSE 0])
            : rows \in {MatchSegmentRows}})

(* The segments _load_match_segments appends, in its row order *)
MatchSegments ==
    The({[i \in DOMAIN rows |-> MatchSegment(rows[i])] \o <<>>
            : rows \in {MatchSegmentRows}})

(* _add_open_segments: the buys ORDER BY broker_id, security_id, date, id  *)
(* with shares beyond what the segments hold                               *)
OpenSegmentBuys ==
    LET idx == {b \in TxIds :
                  /\ txs[b].transaction_type = "buy"
                  /\ GtTol(Abs(txs[b].shares))
                  /\ txs[b].transaction_date # Null
                  /\ GtTol(Abs(txs[b].shares) - SegmentMatchedShares(b))}
        key == [b \in idx |->
                  <<GroupKey(txs[b]), DateKey(txs[b].transaction_date), b>>]
    IN  SortByKey(idx, key)

OpenSegment(b) ==
    [buy_transaction_id |-> b,
     group_key |-> GroupKey(txs[b]),
     buy_date |-> Val(txs[b].transaction_date),
     sell_date |-> Null,
     shares |-> Abs(txs[b].shares) - SegmentMatchedShares(b)]

(* The segments _add_open_segments appends, in its row order *)
OpenSegments ==
    The({[i \in DOMAIN rows |-> OpenSegment(rows[i])] \o <<>>
            : rows \in {OpenSegmentBuys}})

(* The sort key of _sort_segments *)
SegmentSortKey(seg) ==
    <<seg.buy_date, IF seg.sell_date # Null THEN Val(seg.sell_date) ELSE DateMax>>

(* segments[key] after _sort_segments (list.sort is stable) *)
SegmentOrder(unsorted, key) ==
    LET mine == {i \in DOMAIN unsorted : unsorted[i].group_key = key}
    IN  SortByKey(mine, [i \in mine |-> SegmentSortKey(unsorted[i]) \o <<i>>])

SortedSegments(key) ==
    The({[i \in DOMAIN order |-> unsorted[order[i]]] \o <<>>
            : unsorted \in {MatchSegments \o OpenSegments},
              order \in {SegmentOrder(MatchSegments \o OpenSegments, key)}})

SegmentEligibleFromDividendDate(segment, dividend_date, previous_dividend_date) ==
    LET prev_cutoff == IF previous_dividend_date = Null THEN 0
                       ELSE Val(previous_dividend_date)
    IN  /\ ~(segment.buy_date > dividend_date)
        /\ \/ segment.sell_date = Null
           \/ Val(segment.sell_date) >= dividend_date
           \/ Val(segment.sell_date) > prev_cutoff

(* _eligible_segments; previous_dividend_date is Null or Some(date) *)
SegmentEligible(segment, dividend_date, previous_dividend_date) ==
    LET prev_cutoff == IF previous_dividend_date = Null THEN 0
                       ELSE Val(previous_dividend_date)
    IN  /\ ~(segment.buy_date >= dividend_date)
        /\ \/ segment.sell_date = Null
           \/ Val(segment.sell_date) >= dividend_date
           \/ Val(segment.sell_date) > prev_cutoff

EligibleSegments(all_segments, dividend_date, previous_dividend_date) ==
    SelectSeq(all_segments,
              LAMBDA segment : SegmentEligible(segment, dividend_date,
                                               previous_dividend_date))

(* Whether the remainder is added to the last bucket *)
RemainderDue(shares_left, distributed_amount, amount) ==
    GtTol(shares_left) /\ RLt(distributed_amount, amount)

SharesOfWholeSegment(segment, declared_shares, shares_left) == segment.shares

(* shares_to_use of one segment *)
SharesToUse(segment, declared_shares, shares_left) ==
    IF GtTol(declared_shares) THEN Min(segment.shares, shares_left)
    ELSE segment.shares

AllocationOrderPerSegment(order, buckets, buy_id) == Append(order, buy_id)

(* allocation_order after the segment's bucket was looked up *)
AllocationOrder(order, buckets, buy_id) ==
    IF buy_id \in DOMAIN buckets THEN order ELSE Append(order, buy_id)

(* The body of "for segment in eligible_segments" past its break test; st  *)
(* holds shares_left, distributed_amount, allocation_order (order) and the *)
(* bucket of each buy id of it (buckets)                                   *)
DistributeSegment(segment, declared_shares, per_share_amount, st) ==
    LET shares_to_use == SharesToUse(segment, declared_shares, st.shares_left)
        allocation_value == RMul(RInt(shares_to_use), per_share_amount)
        buy_id == segment.buy_transaction_id
        bucket == IF buy_id \in DOMAIN st.buckets THEN st.buckets[buy_id]
                  ELSE [shares |-> 0, amount |-> RZero]
        bucket2 == [shares |-> bucket.shares + shares_to_use,
                    amount |-> RAdd(bucket.amount, allocation_value)]
    IN  IF LeTol(shares_to_use) THEN st
        ELSE [shares_left |-> st.shares_left - shares_to_use,
              distributed_amount |-> RAdd(st.distributed_amount, allocation_value),
              order |-> AllocationOrder(st.order, st.buckets, buy_id),
              buckets |-> [b \in DOMAIN st.buckets \cup {buy_id} |->
                              IF b = buy_id THEN bucket2 ELSE st.buckets[b]]]

(* for segment in eligible_segments: ... *)
RECURSIVE Distribute(_, _, _, _)
Distribute(segs, declared_shares, per_share_amount, st) ==
    IF segs = <<>> \/ (GtTol(declared_shares) /\ LeTol(st.shares_left))
    THEN st
    ELSE The({Distribute(Tail(segs), declared_shares, per_share_amount, next)
                 : next \in {DistributeSegment(Head(segs), declared_shares,
                                               per_share_amount, st)}})

(* The rows _allocate_for_dividend inserts once the loop has distributed r *)
AllocationRows(d, amount, r) ==
    LET last_id == r.order[Len(r.order)]
        buckets == IF RemainderDue(r.shares_left, r.distributed_amount, amount)
                   THEN [r.buckets EXCEPT ![last_id].amount =
                            RAdd(@, RSub(amount, r.distributed_amount))]
                   ELSE r.buckets
    IN  [i \in DOMAIN r.order |->
            [group_key |-> GroupKey(txs[d]),
             dividend_transaction_id |-> d,
             buy_transaction_id |-> r.order[i],
             shares |-> buckets[r.order[i]].shares,
             allocated_amount |-> buckets[r.order[i]].amount]] \o <<>>

(* _allocate_for_dividend past the zero-amount test, over its eligible     *)
(* segments                                                                *)
AllocateOverSegments(d, amount, eligible_segments) ==
    LET available_shares ==
            ISum([i \in DOMAIN eligible_segments |-> eligible_segments[i].shares])
        declared_shares == Abs(txs[d].shares)
        total_shares == IF GtTol(declared_shares) THEN declared_shares
                        ELSE available_shares
        per_share_amount == RDiv(amount, RInt(total_shares))
    IN  IF eligible_segments = <<>>
        THEN [success |-> FALSE,
              message |-> "No eligible holdings on dividend date"]
        ELSE IF LeTol(total_shares)
        THEN [success |-> FALSE,
              message |-> "No share count available for allocation"]
        ELSE The({IF r.order = <<>>
                  THEN [success |-> FALSE,
                        message |-> "Could not distribute dividend across holdings"]
                  ELSE [success |-> TRUE, rows |-> AllocationRows(d, amount, r)]
                     : r \in {Distribute(eligible_segments, declared_shares,
                                         per_share_amount,
                                         [shares_left |-> total_shares,
                                          distributed_amount |-> RZero,
                                          order |-> <<>>, buckets |-> <<>>])}})

(* _allocate_for_dividend: the error message of a failure, or the rows to  *)
(* insert in place of the dividend's prior rows                            *)
AllocateForDividend(d, dividend_date, previous_dividend_date) ==
    LET amount == CoalesceAmount(txs[d], FALSE)
    IN  IF RAbs(amount) = RZero
        THEN [success |-> FALSE, message |-> "Dividend amount is zero"]
        ELSE The({AllocateOverSegments(d, amount, eligible_segments)
                     : eligible_segments \in
                           {EligibleSegments(SortedSegments(GroupKey(txs[d])),
                                             dividend_date,
                                             previous_dividend_date)}})

(* _load_unallocated_dividends *)
UnallocatedDividends ==
    LET idx == {d \in TxIds : /\ txs[d].transaction_type = "dividend"
                              /\ ~txs[d].allocated}
    IN  SortByKey(idx, [d \in idx |->
                          <<GroupKey(txs[d]), DateKey(txs[d].transaction_date), d>>])

(* DELETE FROM dividend_allocation_t WHERE dividend_transaction_id = d *)
RECURSIVE DeleteAllocations(_, _)
DeleteAllocations(table, d) ==
    IF table = <<>> THEN <<>>
    ELSE (IF Head(table).dividend_transaction_id = d THEN <<>>
          ELSE <<Head(table)>>)
         \o DeleteAllocations(Tail(table), d)

RecordErrorWithoutMessage(tx, d, message) == [tx EXCEPT ![d].allocated = FALSE]

(* _record_error: UPDATE transaction_t SET error_message = ?, allocated = 0 *)
RecordError(tx, d, message) ==
    [tx EXCEPT ![d].error_message = Some(message), ![d].allocated = FALSE]

(* The previous dividend date a dividend is allocated with: what the run   *)
(* recorded in previous_dividend_dates for the dividend's group            *)
PreviousDividendDate(prev, key) == prev[key]

(* The outcome of one dividend recorded in st, the state of the run: the   *)
(* two tables, previous_dividend_dates and the statistics                  *)
RecordOutcome(d, st, r) ==
    LET prev2 == [st.prev EXCEPT ![GroupKey(txs[d])] = txs[d].transaction_date]
    IN  IF ~r.success
        THEN [st EXCEPT !.tx = RecordError(@, d, r.message),
                        !.prev = prev2,
                        !.dividends_failed = @ + 1]
        ELSE [st EXCEPT !.tx[d].allocated = TRUE,
                        !.tx[d].error_message = Null,
                        !.table = DeleteAllocations(@, d) \o r.rows,
                        !.prev = prev2,
                        !.dividends_allocated = @ + 1,
                        !.allocations_created = @ + Len(r.rows)]

(* The body of "for dividend_row in dividend_rows" *)
AllocateRow(d, st) ==
    LET dividend_date == txs[d].transaction_date
    IN  IF dividend_date = Null
        THEN [st EXCEPT !.tx = RecordError(@, d, "Missing transaction_date on dividend"),
                        !.dividends_failed = @ + 1]
        ELSE The({RecordOutcome(d, st, r)
                     : r \in {AllocateForDividend(
                                  d, Val(dividend_date),
                                  PreviousDividendDate(st.prev, GroupKey(txs[d])))}})

(* for dividend_row in dividend_rows: ... *)
RECURSIVE AllocateLoop(_, _)
AllocateLoop(dividend_rows, st) ==
    IF dividend_rows = <<>> THEN st
    ELSE The({AllocateLoop(Tail(dividend_rows), next)
                 : next \in {AllocateRow(Head(dividend_rows), st)}})

AllocateDividends ==
    \E dividend_rows \in {UnallocatedDividends} :
    \E st \in {AllocateLoop(dividend_rows,
                            [tx |-> txs, table |-> allocs,
                             prev |-> [k \in {GroupKey(txs[i]) : i \in TxIds} |-> Null],
                             dividends_allocated |-> 0, dividends_failed |-> 0,
                             allocations_created |-> 0])} :
        /\ txs' = st.tx
        /\ allocs' = st.table
        /\ last' = [op |-> "allocate",
                    dividend_rows |-> dividend_rows,
                    dividends_processed |-> Len(dividend_rows),
                    dividends_allocated |-> st.dividends_allocated,
                    dividends_failed |-> st.dividends_failed,
                    allocations_created |-> st.allocations_created]
        /\ UNCHANGED <<matches, gains>>

----------------------------------------------------------------------------
(* portfolio_xirr.  Cash flows are a dict from date to amount (a function  *)
(* here); (broker, security) groups stand for securities, every security   *)
(* has its security_t row and no asset type filter is given.               *)

OUTFLOW_TYPES == {"buy"}
INFLOW_TYPES == {"sell", "dividend", "interest", "distribution"}

NormalizeCashflowAsIs(amount, tx_type) == amount

(* _normalize_cashflow: the sign a transaction type forces on an amount *)
NormalizeCashflow(amount, tx_type) ==
    IF tx_type \in OUTFLOW_TYPES THEN RNeg(RAbs(amount))
    ELSE IF tx_type \in INFLOW_TYPES THEN RAbs(amount)
    ELSE amount

(* cashflows[dt] += amount on a defaultdict(float) *)
AddFlow(cashflows, dt, amount) ==
    [x \in DOMAIN cashflows \cup {dt} |->
        IF x # dt THEN cashflows[x]
        ELSE IF dt \in DOMAIN cashflows THEN RAdd(cashflows[dt], amount)
        ELSE amount]

(* sorted(cashflows.items(), key=lambda item: item[0]) *)
OrderedCashflows(cashflows) ==
    LET order == SortByKey(DOMAIN cashflows, [x \in DOMAIN cashflows |-> <<x>>])
    IN  [i \in DOMAIN order |-> <<order[i], cashflows[order[i]]>>] \o <<>>

(* timed_flows, in days since the first flow (years = days / 365.25) *)
TimedFlows(cashflows) ==
    [i \in DOMAIN cashflows |-> <<cashflows[i][1] - cashflows[1][1], cashflows[i][2]>>]

(* npv(0.0): every discount factor is 1 *)
NpvAtZero(timed_flows) == RSum([i \in DOMAIN timed_flows |-> timed_flows[i][2]])

FlowYearsOf365Days(days) == Rat(days, 365)

(* (flow_date - start_date).days / 365.25 *)
FlowYears(days) == Rat(4 * days, 1461)

(* p / q, cancelling before the products are formed *)
RQuot(p, q) ==
    LET g1 == GCD(Abs(p[1]), Abs(q[1]))
        g2 == GCD(p[2], q[2])
    IN  IF p[1] = 0 THEN RZero
        ELSE Rat((p[1] \div g1) * (q[2] \div g2), (p[2] \div g2) * (q[1] \div g1))

(* A bound of factor ** years for factor > 0 and years >= 0: at most the   *)
(* power when upper is FALSE, at least the power when it is TRUE.  With    *)
(* years = n + f, n whole and 0 <= f < 1, factor ** n is exact and         *)
(* factor ** f lies between factor / (1 + (1 - f) * (factor - 1)) and      *)
(* 1 + f * (factor - 1) (Bernoulli); both are factor ** f itself for f = 0 *)
(* and for factor = 1.                                                     *)
PowerBound(factor, years, upper) ==
    LET n == years[1] \div years[2]
        f == Rat(years[1] % years[2], years[2])
        excess == RSub(factor, RInt(1))
    IN  RMul(RPower(factor, n),
             IF f = RZero THEN RInt(1)
             ELSE IF upper THEN RAdd(RInt(1), RMul(f, excess))
             ELSE RQuot(factor, RAdd(RInt(1), RMul(RSub(RInt(1), f), excess))))

(* A bound of npv(rate) for 1 + rate > 0: the sum of the bounds of         *)
(* amount / (factor ** years); the flows are in days since the first flow  *)
RECURSIVE NpvBound(_, _, _)
NpvBound(timed_flows, rate, upper) ==
    IF timed_flows = <<>> THEN RZero
    ELSE LET amount == Head(timed_flows)[2]
             power == PowerBound(RAdd(RInt(1), rate),
                                 FlowYears(Head(timed_flows)[1]),
                                 upper # RLt(RZero, amount))
         IN  RAdd(RQuot(amount, power), NpvBound(Tail(timed_flows), rate, upper))

(* The flows in units of the largest amount that divides every whole       *)
(* amount: npv in these units has the sign of npv                          *)
RECURSIVE AmountsDivisor(_)
AmountsDivisor(timed_flows) ==
    IF timed_flows = <<>> THEN 0
    ELSE GCD(Abs(Head(timed_flows)[2][1]), AmountsDivisor(Tail(timed_flows)))

WholeUnits(timed_flows) ==
    LET unit == AmountsDivisor(timed_flows)
    IN  IF unit = 0 \/ \E i \in DOMAIN timed_flows : timed_flows[i][2][2] # 1
        THEN timed_flows
        ELSE [i \in DOMAIN timed_flows |->
                 <<timed_flows[i][1], RInt(timed_flows[i][2][1] \div unit)>>]

(* The sign of npv(rate) where the bounds decide it: 1, -1, or 0 when they *)
(* do not (npv(rate) = 0 among the cases)                                  *)
NpvSign(timed_flows, rate) ==
    LET units == WholeUnits(timed_flows)
    IN  IF RLt(RZero, NpvBound(units, rate, FALSE)) THEN 1
        ELSE IF RLt(NpvBound(units, rate, TRUE), RZero) THEN -1
        ELSE 0

XirrFromCashflowsOfAnySign(cashflows) ==
    IF Len(cashflows) < 2 THEN Null
    ELSE [search |-> TimedFlows(cashflows),
          npv_at_zero |-> NpvAtZero(TimedFlows(cashflows))]

(* _xirr_from_cashflows.  None is Null.  Past the two tests the function   *)
(* searches a root of npv by bracketing and bisection in floating point;   *)
(* the search is kept as the timed flows it runs on, with npv(0.0), and    *)
(* its outcome (a rate, or None when no bracket is found) is not computed. *)
XirrFromCashflows(cashflows) ==
    LET has_positive == \E i \in DOMAIN cashflows : RLt(RZero, cashflows[i][2])
        has_negative == \E i \in DOMAIN cashflows : RLt(cashflows[i][2], RZero)
    IN  IF Len(cashflows) < 2 THEN Null
        ELSE IF ~(has_positive /\ has_negative) THEN Null
        ELSE [search |-> TimedFlows(cashflows),
              npv_at_zero |-> NpvAtZero(TimedFlows(cashflows))]

(* The dated rows of transaction_t that are not dividends,                 *)
(* ORDER BY transaction_date, id                                           *)
XirrLedgerRows ==
    LET idx == {i \in TxIds : /\ txs[i].transaction_date # Null
                              /\ txs[i].transaction_type # "dividend"}
    IN  SortByKey(idx, [i \in idx |-> <<Val(txs[i].transaction_date), i>>])

(* The rows of dividend_allocation_t of dated dividends with allocated = 1 *)
XirrDividendRows ==
    SelectSeq(allocs, LAMBDA a :
        /\ txs[a.dividend_transaction_id].transaction_date # Null
        /\ txs[a.dividend_transaction_id].allocated)

(* abs(raw_amount) / shares_abs, or price_per_share when that is zero *)
TradePrice(row, raw_amount) ==
    LET price == RDiv(RAbs(raw_amount), RInt(Abs(row.shares)))
    IN  IF RLe(price, RZero) /\ row.price_per_share # Null
        THEN RInt(Val(row.price_per_share))
        ELSE price

(* open_positions[security_id] after a buy or sell row *)
TradedPosition(position, row, raw_amount) ==
    LET tx_date == Val(row.transaction_date)
        shares_abs == Abs(row.shares)
        newer == \/ position.last_price_date = Null
                 \/ tx_date >= Val(position.last_price_date)
    IN  [net_shares |-> IF row.transaction_type = "buy"
                        THEN position.net_shares + shares_abs
                        ELSE position.net_shares - shares_abs,
         last_price |-> IF newer THEN Some(TradePrice(row, raw_amount))
                        ELSE position.last_price,
         last_price_date |-> IF newer THEN Some(tx_date)
                             ELSE position.last_price_date]

(* The body of "for row in rows" *)
XirrLedgerRow(row, st) ==
    LET raw_amount == CoalesceAmount(row, TRUE)
        amount == NormalizeCashflow(raw_amount, row.transaction_type)
    IN  IF amount = RZero THEN st
        ELSE [cashflows |-> AddFlow(st.cashflows, Val(row.transaction_date), amount),
              open_positions |->
                  IF row.transaction_type \in {"buy", "sell"} /\ GtTol(Abs(row.shares))
                  THEN [st.open_positions EXCEPT ![GroupKey(row)] =
                            TradedPosition(@, row, raw_amount)]
                  ELSE st.open_positions]

RECURSIVE XirrLedgerLoop(_, _)
XirrLedgerLoop(rows, st) ==
    IF rows = <<>> THEN st
    ELSE The({XirrLedgerLoop(Tail(rows), next)
                 : next \in {XirrLedgerRow(txs[Head(rows)], st)}})

(* for row in dividend_rows: cashflows[div_date] += allocated_amount *)
RECURSIVE XirrDividendLoop(_, _)
XirrDividendLoop(dividend_rows, cashflows) ==
    IF dividend_rows = <<>> THEN cashflows
    ELSE LET a == Head(dividend_rows)
             div_date == Val(txs[a.dividend_transaction_id].transaction_date)
         IN  XirrDividendLoop(
                 Tail(dividend_rows),
                 IF a.allocated_amount = RZero THEN cashflows
                 ELSE AddFlow(cashflows, div_date, a.allocated_amount))

OpenValueInShares(net_shares, last_price) == RInt(net_shares)

(* open_value = net_shares * float(last_price) *)
OpenValue(net_shares, last_price) == RMul(RInt(net_shares), last_price)

(* open_valuation_entries, by security *)
OpenValuationEntries(open_positions) ==
    LET held == {k \in DOMAIN open_positions :
                    /\ open_positions[k].net_shares # 0
                    /\ open_positions[k].last_price # Null
                    /\ OpenValue(open_positions[k].net_shares,
                                 Val(open_positions[k].last_price)) # RZero}
    IN  [k \in held |-> OpenValue(open_positions[k].net_shares,
                                  Val(open_positions[k].last_price))]

(* date.today(), moved to the latest date of the series when that is later *)
ValuationDate(today, cashflows) ==
    IF DOMAIN cashflows = {} THEN today
    ELSE Max(today, CHOOSE x \in DOMAIN cashflows : \A y \in DOMAIN cashflows : y <= x)

RECURSIVE AddValuations(_, _, _, _)
AddValuations(cashflows, valuation_date, entries, keys) ==
    IF keys = {} THEN cashflows
    ELSE LET k == CHOOSE x \in keys : TRUE
         IN  AddValuations(AddFlow(cashflows, valuation_date, entries[k]),
                           valuation_date, entries, keys \ {k})

(* calculate_portfolio_xirr on a day `today`: reads the tables only *)
CalculatePortfolioXirr(today) ==
    \E rows \in {XirrLedgerRows} :
    \E st \in {XirrLedgerLoop(rows,
                   [cashflows |-> <<>>,
                    open_positions |->
                        [k \in {GroupKey(txs[i]) : i \in TxIds} |->
                            [net_shares |-> 0, last_price |-> Null,
                             last_price_date |-> Null]]])} :
    \E ledger_cashflows \in {XirrDividendLoop(XirrDividendRows, st.cashflows)} :
    \E entries \in {OpenValuationEntries(st.open_positions)} :
    \E valuation_date \in {ValuationDate(today, ledger_cashflows)} :
    \E cashflows \in {AddValuations(ledger_cashflows, valuation_date,
                                    entries, DOMAIN entries)} :
    \E ordered_cashflows \in {OrderedCashflows(cashflows)} :
        /\ last' = [op |-> "xirr", today |-> today,
                    ledger_cashflows |-> IF rows = <<>> THEN <<>> ELSE ledger_cashflows,
                    valuation_date |-> IF DOMAIN entries = {} THEN Null
                                       ELSE Some(valuation_date),
                    cashflows |-> IF rows = <<>> THEN <<>> ELSE ordered_cashflows,
                    result |-> IF rows = <<>> \/ DOMAIN cashflows = {} THEN Null
                               ELSE XirrFromCashflows(ordered_cashflows)]
        /\ UNCHANGED <<txs, matches, allocs, gains>>

(* The Match rows whose buy and sell are dated, ORDER BY buy date, tm.id *)
ClosedMatchRows ==
    LET idx == {k \in DOMAIN matches :
                   /\ txs[matches[k].buy_transaction_id].transaction_date # Null
                   /\ txs[matches[k].sell_transaction_id].transaction_date # Null}
    IN  SortByKey(idx, [k \in idx |->
                          <<Val(txs[matches[k].buy_transaction_id].transaction_date), k>>])

(* The body of "for row in match_rows" *)
RECURSIVE ClosedMatchLoop(_, _)
ClosedMatchLoop(match_rows, cashflows) ==
    IF match_rows = <<>> THEN cashflows
    ELSE LET m == matches[Head(match_rows)]
             buy_date == Val(txs[m.buy_transaction_id].transaction_date)
             sell_date == Val(txs[m.sell_transaction_id].transaction_date)
             with_cost == IF m.allocated_cost = RZero THEN cashflows
                          ELSE AddFlow(cashflows, buy_date, RNeg(RAbs(m.allocated_cost)))
             with_proceeds == IF m.allocated_proceeds = RZero THEN with_cost
                              ELSE AddFlow(with_cost, sell_date, m.allocated_proceeds)
         IN  ClosedMatchLoop(Tail(match_rows), with_proceeds)

(* The rows of dividend_allocation_t of dated dividends whose              *)
(* buy_transaction_id is in matched_buy_ids                                *)
ClosedDividendRows(matched_buy_ids) ==
    SelectSeq(allocs, LAMBDA a :
        /\ txs[a.dividend_transaction_id].transaction_date # Null
        /\ a.buy_transaction_id \in matched_buy_ids)

(* calculate_portfolio_xirr_closed_positions: reads the tables only *)
CalculatePortfolioXirrClosedPositions ==
    \E match_rows \in {ClosedMatchRows} :
    \E matched_buy_ids \in {{matches[match_rows[i]].buy_transaction_id
                               : i \in DOMAIN match_rows}} :
    \E dividend_rows \in {ClosedDividendRows(matched_buy_ids)} :
    \E cashflows \in {XirrDividendLoop(dividend_rows,
                                       ClosedMatchLoop(match_rows, <<>>))} :
    \E ordered_cashflows \in {OrderedCashflows(cashflows)} :
        /\ last' = [op |-> "xirr_closed",
                    dividend_rows |-> dividend_rows,
                    cashflows |-> IF match_rows = <<>> THEN <<>> ELSE ordered_cashflows,
                    result |-> IF match_rows = <<>> \/ DOMAIN cashflows = {} THEN Null
                               ELSE XirrFromCashflows(ordered_cashflows)]
        /\ UNCHANGED <<txs, matches, allocs, gains>>

(* _xirr_from_cashflows called on the list of flows that was drawn *)
XirrFromCashflowsCall ==
    /\ last.op = "input"
    /\ last' = [op |-> "xirr_flows", cashflows |-> last.cashflows,
                result |-> XirrFromCashflows(last.cashflows)]
    /\ UNCHANGED <<txs, matches, allocs, gains>>

----------------------------------------------------------------------------
(* _calculate_cagr, and the realized_gain_t row of a position, applied to  *)
(* the values that were drawn                                              *)

CalculateCagrCall ==
    /\ last.op = "cagr_input"
    /\ last' = [op |-> "cagr", initial_value |-> last.initial_value,
                final_value |-> last.final_value, years |-> last.years,
                result |-> CalculateCagr(last.initial_value, last.final_value,
                                         last.years)]
    /\ UNCHANGED <<txs, matches, allocs, gains>>

GainRowCall ==
    /\ last.op = "position_input"
    /\ last' = [op |-> "position", position |-> last.position,
                row |-> GainRow(last.position)]
    /\ UNCHANGED <<txs, matches, allocs, gains>>

----------------------------------------------------------------------------
(* Runs that end before their commit.  Each run works on one sqlite3       *)
(* connection: the create_* calls are DDL, every DELETE, INSERT and UPDATE *)
(* after them belongs to one transaction, and the only commit is the last  *)
(* statement before the final close.  A run that raises, or is stopped,    *)
(* between two of its statements drops the connection without a commit.    *)

CloseWithCommit(stored, work) == work

(* What a table holds once a connection that wrote `work` is closed, or    *)
(* dropped, without a commit: the transaction is rolled back               *)
CloseWithoutCommit(stored, work) == stored

(* create_transaction_matches stopped after the DELETE of clear_existing   *)
(* and `inserted` of its INSERTs                                           *)
InterruptedMatcher(clear_existing, only_unused) ==
    \E rows \in {TradeRows(only_unused)}, base \in {ClearedTable(clear_existing)} :
    \E r \in {MatchGroups(rows, {GroupKey(txs[i]) : i \in rows}, base, <<>>, 0)} :
    \E inserted \in 0..Len(r.out) :
    \E work \in {base \o SubSeq(r.out, 1, inserted)} :
        /\ work # matches
        /\ matches' = CloseWithoutCommit(matches, work)
        /\ last' = [op |-> "match_failed",
                    deleted |-> Len(matches) - Len(base),
                    inserted |-> inserted]
        /\ UNCHANGED <<txs, allocs, gains>>

FailMatcher == \E c \in BOOLEAN, u \in BOOLEAN : InterruptedMatcher(c, u)

(* allocate_dividends stopped after the first `done` dividends of its loop *)
FailAllocator ==
    \E dividend_rows \in {UnallocatedDividends} :
    \E done \in 1..Len(dividend_rows) :
    \E st \in {AllocateLoop(SubSeq(dividend_rows, 1, done),
                            [tx |-> txs, table |-> allocs,
                             prev |-> [k \in {GroupKey(txs[i]) : i \in TxIds} |-> Null],
                             dividends_allocated |-> 0, dividends_failed |-> 0,
                             allocations_created |-> 0])} :
        /\ txs' = CloseWithoutCommit(txs, st.tx)
        /\ allocs' = CloseWithoutCommit(allocs, st.table)
        /\ last' = [op |-> "allocate_failed",
                    dividends_allocated |-> st.dividends_allocated,
                    dividends_failed |-> st.dividends_failed,
                    allocations_created |-> st.allocations_created]
        /\ UNCHANGED <<matches, gains>>

(* calculate_realized_gains stopped after its INSERT INTO realized_gain_t  *)
(* (marked = FALSE) or after its UPDATE of transaction_t (marked = TRUE)   *)
FailAggregator ==
    \E eligible \in {EligibleSellIds} :
    \E match_rows \in {EligibleMatchRows(eligible)} :
    \E agg \in {AggregatePositions(match_rows, <<>>, <<>>)} :
    \E div \in {MatchDividendsByGroup({a[1] : a \in DOMAIN agg.pos}, agg.pos, {})} :
    \E insert_payload \in {InsertPayload(agg.order, div.pos)} :
    \E marked \in BOOLEAN :
        /\ eligible # {}
        /\ match_rows # <<>>
        /\ gains' = CloseWithoutCommit(gains, gains \o insert_payload)
        /\ txs' = CloseWithoutCommit(
                      txs, IF marked THEN MarkUsed(txs, UsedTransactionIds(div.used, eligible))
                           ELSE txs)
        /\ last' = [op |-> "gains_failed", previous_op |-> last.op,
                    inserted |-> Len(insert_payload), marked |-> marked]
        /\ UNCHANGED <<matches, allocs>>

----------------------------------------------------------------------------
(* _xirr_from_cashflows step by step: the doubling loop, the scan of       *)
(* BRACKET_SCAN_POINTS and the bisection loop.  The cash flows are known   *)
(* by the days between the first and the last of them and by whether they  *)
(* pass the entry tests; the amounts are left open, so every npv() call    *)
(* may return a value of any class.                                        *)

(* attempts < 60, range(200), len(BRACKET_SCAN_POINTS) *)
MaxAttempts == 60
BisectionSteps == 200
ScanPointCount == 37

(* high < 1e6 with high = 0.1 * 2^attempts *)
HighBelowLimit(attempts) == 2 ^ attempts < 10000000

(* The classes of a float: abs(val) < 1e-7 is small, math.isfinite fails   *)
(* on the infinities and on nan                                            *)
NpvClasses ==
    {"negative", "small_negative", "zero", "small_positive", "positive",
     "minus_inf", "plus_inf", "nan"}

IsFinite(val) == val \notin {"minus_inf", "plus_inf", "nan"}
IsSmall(val) == val \in {"small_negative", "zero", "small_positive"}

SignOf(val) ==
    IF val \in {"negative", "small_negative", "minus_inf"} THEN -1
    ELSE IF val \in {"positive", "small_positive", "plus_inf"} THEN 1
    ELSE 0

(* a * b > 0 and a * b < 0; a product with zero or nan is neither *)
ProductPositive(a, b) == SignOf(a) * SignOf(b) > 0
ProductNegative(a, b) == SignOf(a) * SignOf(b) < 0

(* factor ** years at rate low = -0.9999: the float power is 0.0 below     *)
(* 2^-1075, and amount / 0.0 raises ZeroDivisionError.  years = days /     *)
(* 365.25 and log2(1 - 0.9999) = -13.29, in hundredths.                    *)
PowerUnderflows(days) == 4 * days * 1329 >= 1461 * 107500

(* factor ** years at rate high = 0.1 * 2^attempts: the float power raises *)
(* OverflowError from 2^1024 on.  log2(1 + 0.1 * 2^attempts) = attempts -  *)
(* 3.32 wherever the power can get that large within the spans that do     *)
(* not underflow at low.                                                   *)
PowerOverflows(attempts, days) ==
    4 * days * (100 * attempts - 332) >= 1461 * 102400

SearchState(days, searchable) ==
    [op |-> "xirr_search", pc |-> "start", days |-> days,
     searchable |-> searchable, attempts |-> 0, scan_at |-> 1,
     prev_val |-> Null, steps |-> 0, npv_low |-> Null, npv_high |-> Null,
     outcome |-> Null]

Searching(pc) == last.op = "xirr_search" /\ last.pc = pc

(* The call ends: with a returned value, or with an exception that nothing *)
(* catches                                                                 *)
Return(outcome) ==
    /\ last' = [last EXCEPT !.pc = "done", !.outcome = outcome]
    /\ UNCHANGED <<txs, matches, allocs, gains>>

(* The entry tests, npv(low) and npv(high) *)
EvaluateEnds ==
    /\ Searching("start")
    /\ IF ~last.searchable THEN Return("none")
       ELSE IF PowerUnderflows(last.days) THEN Return("ZeroDivisionError")
       ELSE \E npv_low \in NpvClasses, npv_high \in NpvClasses :
               /\ last' = [last EXCEPT !.pc = "doubling",
                                       !.npv_low = Some(npv_low),
                                       !.npv_high = Some(npv_high)]
               /\ UNCHANGED <<txs, matches, allocs, gains>>

(* while npv_low * npv_high > 0 and attempts < 60 and high < 1e6 *)
DoublingContinues ==
    /\ ProductPositive(Val(last.npv_low), Val(last.npv_high))
    /\ last.attempts < MaxAttempts
    /\ HighBelowLimit(last.attempts)

(* high *= 2; npv_high = npv(high); attempts += 1 *)
DoubleHigh ==
    /\ Searching("doubling")
    /\ DoublingContinues
    /\ IF PowerOverflows(last.attempts + 1, last.days)
       THEN Return("OverflowError")
       ELSE \E npv_high \in NpvClasses :
               /\ last' = [last EXCEPT !.attempts = @ + 1,
                                       !.npv_high = Some(npv_high)]
               /\ UNCHANGED <<txs, matches, allocs, gains>>

(* The tests between the doubling loop and the scan *)
EndDoubling ==
    /\ Searching("doubling")
    /\ ~DoublingContinues
    /\ IF ~(IsFinite(Val(last.npv_low)) /\ IsFinite(Val(last.npv_high)))
       THEN Return("none")
       ELSE /\ last' = [last EXCEPT !.pc =
                           IF ProductPositive(Val(last.npv_low), Val(last.npv_high))
                           THEN "scan" ELSE "bisect"]
            /\ UNCHANGED <<txs, matches, allocs, gains>>

(* One round of "for rate in BRACKET_SCAN_POINTS", or its else branch *)
ScanPoint ==
    /\ Searching("scan")
    /\ IF last.scan_at > ScanPointCount THEN Return("none")
       ELSE \E val \in NpvClasses :
               IF ~IsFinite(val)
               THEN /\ last' = [last EXCEPT !.scan_at = @ + 1]
                    /\ UNCHANGED <<txs, matches, allocs, gains>>
               ELSE IF IsSmall(val) THEN Return("scan_point")
               ELSE IF last.prev_val # Null
                       /\ ProductNegative(Val(last.prev_val), val)
               THEN /\ last' = [last EXCEPT !.pc = "bisect",
                                            !.npv_low = last.prev_val,
                                            !.npv_high = Some(val)]
                    /\ UNCHANGED <<txs, matches, allocs, gains>>
               ELSE /\ last' = [last EXCEPT !.scan_at = @ + 1,
                                            !.prev_val = Some(val)]
                    /\ UNCHANGED <<txs, matches, allocs, gains>>

(* One round of "for _ in range(200)", or the return after the loop *)
BisectStep ==
    /\ Searching("bisect")
    /\ IF last.steps >= BisectionSteps THEN Return("midpoint")
       ELSE \E npv_mid \in NpvClasses :
               IF ~IsFinite(npv_mid) THEN Return("none")
               ELSE IF IsSmall(npv_mid) THEN Return("midpoint")
               ELSE /\ last' =
                         IF ProductNegative(Val(last.npv_low), npv_mid)
                         THEN [last EXCEPT !.steps = @ + 1,
                                           !.npv_high = Some(npv_mid)]
                         ELSE [last EXCEPT !.steps = @ + 1,
                                           !.npv_low = Some(npv_mid)]
                    /\ UNCHANGED <<txs, matches, allocs, gains>>

----------------------------------------------------------------------------
(* Ingestion (the external collaborator): appends one row to transaction_t *)

IngestGroups == {1}
TradeDates == {1, 2}
TradeShares == {1, 2}
TradeAmounts == {3}
DividendDates == {2, 3}
(* <<declared shares, amount>>: none declared, more or fewer declared than *)
(* held, a negative (reversed) payment, a zero payment                     *)
DividendTerms == {<<0, 2>>, <<3, 2>>, <<3, -2>>, <<0, 0>>}

NumTrades == Cardinality({i \in TxIds : txs[i].transaction_type \in {"buy", "sell"}})
NumDividends == Cardinality({i \in TxIds : txs[i].transaction_type = "dividend"})

Ingest(row) ==
    /\ txs' = Append(txs, row)
    /\ last' = [op |-> "ingest"]
    /\ UNCHANGED <<matches, allocs, gains>>

IngestBuy ==
    /\ NumTrades < MaxTx
    /\ \E key \in IngestGroups, dt \in TradeDates, shares \in TradeShares,
          amount \in TradeAmounts :
           Ingest(NewTx("buy", key, Some(dt), shares, Some(-amount)))

IngestSell ==
    /\ NumTrades < MaxTx
    /\ \E key \in IngestGroups, dt \in TradeDates, shares \in TradeShares,
          amount \in TradeAmounts :
           Ingest(NewTx("sell", key, Some(dt), shares, Some(amount)))

IngestDividend ==
    /\ NumDividends < MaxDividends
    /\ \E key \in IngestGroups, dt \in DividendDates, terms \in DividendTerms :
           Ingest(NewTx("dividend", key, Some(dt), terms[1], Some(terms[2])))

(* Malformed buy and sell rows: no date, no shares, shares entered with a  *)
(* minus sign, and neither net_amount nor total_value but a price          *)
MalformedRows(type, key, dt, amount) ==
    {NewTx(type, key, Null, 1, Some(amount)),
     NewTx(type, key, Some(dt), 0, Some(amount)),
     NewTx(type, key, Some(dt), -1, Some(amount)),
     [NewTx(type, key, Some(dt), 1, Null) EXCEPT !.price_per_share = Some(3)]}

IngestMalformed ==
    /\ NumTrades < MaxTx
    /\ \E key \in IngestGroups, dt \in TradeDates, amount \in TradeAmounts :
          \/ \E row \in MalformedRows("buy", key, dt, -amount) : Ingest(row)
          \/ \E row \in MalformedRows("sell", key, dt, amount) : Ingest(row)

(* Buys and sells with a fee: total_value is the traded value, net_amount  *)
(* the amount after the fee                                                *)
TradeFees == {1}

IngestWithFees ==
    /\ NumTrades < MaxTx
    /\ \E key \in IngestGroups, dt \in TradeDates, amount \in TradeAmounts,
          fee \in TradeFees :
          \/ Ingest([NewTx("buy", key, Some(dt), 2, Some(-amount))
                        EXCEPT !.fees = Some(fee),
                               !.net_amount = Some(-amount - fee)])
          \/ Ingest([NewTx("sell", key, Some(dt), 2, Some(amount))
                        EXCEPT !.fees = Some(fee),
                               !.net_amount = Some(amount - fee)])

(* Interest and distributions: <<type, amount>>, a reversed and a zero     *)
(* payment                                                                 *)
IncomeDates == {2}
IncomeTerms == {<<"distribution", -2>>, <<"interest", 0>>}

NumIncome ==
    Cardinality({i \in TxIds : txs[i].transaction_type \in {"interest", "distribution"}})

IngestIncome ==
    /\ NumIncome < MaxIncome
    /\ \E key \in IngestGroups, dt \in IncomeDates, terms \in IncomeTerms :
           Ingest(NewTx(terms[1], key, Some(dt), 0, Some(terms[2])))

(* The days on which a return is asked for, and the lists of cash flows    *)
(* _xirr_from_cashflows is called with                                     *)
Todays == {2, 3}
FlowDates == {1, 2}
FlowAmounts == {-1, 0, 1}

(* -1000 on a day and +1100 365 days later *)
RoundTripFlows == <<<<1, RInt(-1000)>>, <<366, RInt(1100)>>>>

RECURSIVE FlowLists(_)
FlowLists(n) ==
    IF n = 0 THEN {<<>>}
    ELSE LET shorter == FlowLists(n - 1)
         IN  shorter \cup {Append(f, <<dt, RInt(a)>>) :
                             f \in {g \in shorter : Len(g) = n - 1},
                             dt \in FlowDates, a \in FlowAmounts}

----------------------------------------------------------------------------
(* Ledgers of the documented scenarios *)

(* Buys of 100 @ A and 50 @ B (A before B) and a sell of 120 *)
FifoExampleLedger ==
    <<NewTx("buy", 1, Some(1), 100, Some(-1000)),
      NewTx("buy", 1, Some(2), 50, Some(-500)),
      NewTx("sell", 1, Some(3), 120, Some(1440))>>

(* A sell of 50 shares with no buy lot *)
UnmatchedSellLedger == <<NewTx("sell", 1, Some(1), 50, Some(600))>>

(* Two securities traded on the same days, the second one oversold *)
TwoSecuritiesLedger ==
    <<NewTx("buy", 1, Some(1), 2, Some(-6)),
      NewTx("buy", 2, Some(1), 1, Some(-3)),
      NewTx("sell", 2, Some(2), 2, Some(8)),
      NewTx("sell", 1, Some(2), 1, Some(4)),
      NewTx("sell", 1, Some(2), 1, Some(4))>>

(* test_allocates_only_segments_open_between_dividends; the days are       *)
(* 1: 2024-03-20, 2: 2024-05-04, 3: 2024-05-07, 4: 2024-06-17,             *)
(* 5: 2024-08-16, 6: 2024-09-27, 7: 2025-05-07                             *)
TestTx(type, dt, shares, amount) ==
    [NewTx(type, 1, Some(dt), shares, Some(amount))
        EXCEPT !.net_amount = Some(amount)]

DividendExampleLedger ==
    <<TestTx("buy", 1, 100, -1000), TestTx("sell", 6, 100, 1200),
      TestTx("buy", 3, 100, -1000), TestTx("sell", 6, 100, 1200),
      TestTx("buy", 4, 70, -700), TestTx("sell", 6, 70, 840),
      TestTx("buy", 5, 100, -1200),
      TestTx("dividend", 2, 100, 100),
      TestTx("dividend", 7, 350, 350)>>

(* test_includes_open_positions_in_cashflows: one buy of 10 shares at 100 *)
(* on day 2                                                                *)
OpenPositionLedger ==
    <<[TestTx("buy", 2, 10, -1000) EXCEPT !.price_per_share = Some(100)]>>

ExampleMatch(buy_id, sell_id, shares) ==
    [group_key |-> 1, buy_transaction_id |-> buy_id,
     sell_transaction_id |-> sell_id, shares |-> shares,
     allocated_cost |-> RInt(shares * 10),
     allocated_proceeds |-> RInt(shares * 12),
     allocated_fees |-> RZero]

DividendExampleMatches ==
    <<ExampleMatch(1, 2, 100), ExampleMatch(3, 4, 100), ExampleMatch(5, 6, 70)>>

----------------------------------------------------------------------------
(* Specifications *)

InitTables(ledger, ms) ==
    /\ txs = ledger
    /\ matches = ms
    /\ allocs = <<>>
    /\ gains = <<>>
    /\ last = [op |-> "init"]

Init == InitTables(<<>>, <<>>)

(* The matcher and the aggregator over buys and sells *)
InitM ==
    \/ Init
    \/ InitTables(FifoExampleLedger, <<>>)
    \/ InitTables(UnmatchedSellLedger, <<>>)
    \/ InitTables(TwoSecuritiesLedger, <<>>)

NextM ==
    \/ IngestBuy
    \/ IngestSell
    \/ RunMatcher
    \/ CalculateRealizedGains

SpecM == InitM /\ [][NextM]_vars

(* The dividend allocator over buys, sells, dividends and Match rows *)
InitD ==
    \/ Init
    \/ InitTables(DividendExampleLedger, DividendExampleMatches)

RunMatcherAll == \E c \in BOOLEAN : CreateTransactionMatches(c, FALSE)

NextD ==
    \/ (NumTrades < MaxTradesHeld /\ IngestBuy)
    \/ (NumTrades < MaxTradesHeld /\ IngestSell)
    \/ IngestDividend
    \/ RunMatcherAll
    \/ AllocateDividends

SpecD == InitD /\ [][NextD]_vars

(* The three runs, completed or stopped before their commit, over a small *)
(* ledger                                                                  *)
NextT ==
    \/ (NumTrades < MaxTradesHeld /\ IngestBuy)
    \/ (NumTrades < MaxTradesHeld /\ IngestSell)
    \/ (NumDividends < MaxDividendsHeld /\ IngestDividend)
    \/ RunMatcher
    \/ AllocateDividends
    \/ CalculateRealizedGains
    \/ FailMatcher
    \/ FailAllocator
    \/ FailAggregator

SpecT == Init /\ [][NextT]_vars

(* The matcher over well-formed and malformed buys and sells *)
NextF ==
    \/ IngestBuy
    \/ IngestSell
    \/ IngestMalformed
    \/ IngestWithFees
    \/ RunMatcher

SpecF == Init /\ [][NextF]_vars

(* The two XIRR modes over the ledger and the matcher's and allocator's   *)
(* tables, and _xirr_from_cashflows over lists of flows                    *)
InitX ==
    \/ Init
    \/ InitTables(OpenPositionLedger, <<>>)
    \/ /\ txs = <<>>
       /\ matches = <<>>
       /\ allocs = <<>>
       /\ gains = <<>>
       /\ \E flows \in FlowLists(MaxFlows) \cup {RoundTripFlows} :
              last = [op |-> "input", cashflows |-> flows]

NextX ==
    \/ (NumTrades < MaxTradesHeld /\ IngestBuy)
    \/ (NumTrades < MaxTradesHeld /\ IngestSell)
    \/ (NumDividends < MaxDividendsHeld /\ IngestDividend)
    \/ IngestIncome
    \/ RunMatcherAll
    \/ AllocateDividends
    \/ \E today \in Todays : CalculatePortfolioXirr(today)
    \/ CalculatePortfolioXirrClosedPositions
    \/ XirrFromCashflowsCall

SpecX == InitX /\ [][NextX]_vars

(* _calculate_cagr over invested values, final values and years, and the  *)
(* rows of positions held for 0, 4 and 8 years (1461 days are 4 years)     *)
CagrInitialValues == {0, 1, 4, 16, 1000}
CagrFinalValues == {-16, -4, -1, 0, 1, 4, 16}
CagrYears == {RZero, Rat(1, 2), RInt(1), RInt(2), RInt(4)}
PositionProfits == {-20, -17, -16, -12, 0, 48}
PositionDividends == {-4, 0, 4}
PositionSellDates == {1, 1462, 2923}

InitC ==
    /\ txs = <<>>
    /\ matches = <<>>
    /\ allocs = <<>>
    /\ gains = <<>>
    /\ \/ \E initial_value \in CagrInitialValues, final_value \in CagrFinalValues,
             years \in CagrYears :
              last = [op |-> "cagr_input", initial_value |-> RInt(initial_value),
                      final_value |-> RInt(final_value), years |-> years]
       \/ \E p_l \in PositionProfits, total_dividend \in PositionDividends,
             sell_date \in PositionSellDates :
              last = [op |-> "position_input",
                      position |-> [group_key |-> 1, buy_date |-> 1,
                                    sell_date |-> sell_date, shares |-> 1,
                                    invested_value |-> RInt(16),
                                    realized_pl |-> RInt(p_l),
                                    total_dividend |-> RInt(total_dividend),
                                    dividend_count |-> 0]]

NextC ==
    \/ CalculateCagrCall
    \/ GainRowCall

SpecC == InitC /\ [][NextC]_vars

(* _xirr_from_cashflows step by step over flows that span a year, sixty    *)
(* years and eighty-two years                                              *)
SpanDays == {366, 21915, 29950}

InitR ==
    /\ txs = <<>>
    /\ matches = <<>>
    /\ allocs = <<>>
    /\ gains = <<>>
    /\ \E days \in SpanDays, searchable \in BOOLEAN :
           last = SearchState(days, searchable)

NextR ==
    \/ EvaluateEnds
    \/ DoubleHigh
    \/ EndDoubling
    \/ ScanPoint
    \/ BisectStep

SpecR == InitR /\ [][NextR]_vars

(* The search as a sequential program: a step that can be taken is taken *)
SpecRFair == SpecR /\ WF_vars(NextR)

(* Everything *)
Next ==
    \/ IngestBuy
    \/ IngestSell
    \/ IngestDividend
    \/ IngestMalformed
    \/ IngestWithFees
    \/ RunMatcher
    \/ AllocateDividends
    \/ CalculateRealizedGains

Spec == Init /\ [][Next]_vars

----------------------------------------------------------------------------
(* Properties of the matcher *)

(* Shares of the Match rows of ms that point at one buy, at one sell *)
MatchedToBuy(ms, b) ==
    ISum([k \in 1..Len(ms) |->
            IF ms[k].buy_transaction_id = b THEN ms[k].shares ELSE 0])

MatchedToSell(ms, s) ==
    ISum([k \in 1..Len(ms) |->
            IF ms[k].sell_transaction_id = s THEN ms[k].shares ELSE 0])

OpenShares(ms, b) == Abs(txs[b].shares) - MatchedToBuy(ms, b)
UnsoldShares(ms, s) == Abs(txs[s].shares) - MatchedToSell(ms, s)

(* The rows the last matcher run inserted, and the buys and sells it loaded *)
NewMatchIndexes == (Len(matches) - last.matches_created + 1)..Len(matches)
LoadedBuys == {i \in TradeRows(last.only_unused) : txs[i].transaction_type = "buy"}
LoadedSells == {i \in TradeRows(last.only_unused) : txs[i].transaction_type = "sell"}
MatcherRan == last.op = "match" /\ ~last.raised

RECURSIVE TotalUnsold(_)
TotalUnsold(S) ==
    IF S = {} THEN 0
    ELSE LET s == CHOOSE x \in S : TRUE
         IN  UnsoldShares(matches, s) + TotalUnsold(S \ {s})

MatchTriples ==
    [k \in 1..Len(matches) |->
        <<matches[k].buy_transaction_id, matches[k].sell_transaction_id,
          matches[k].shares>>]

(* C1: whatever matcher runs (default, clear_existing, only_unused) and    *)
(* buy/sell ingestions came before, the shares of the Match rows of every  *)
(* buy are at most the buy's shares, and the same for every sell.          *)
NoOverAllocation ==
    \A i \in TxIds :
        /\ txs[i].transaction_type = "buy"
              => MatchedToBuy(matches, i) <= Abs(txs[i].shares)
        /\ txs[i].transaction_type = "sell"
              => MatchedToSell(matches, i) <= Abs(txs[i].shares)

(* An incremental run added rows next to older ones and used a buy up      *)
(* with rows of two runs                                                   *)
NoOverAllocationWitness ==
    /\ MatcherRan
    /\ ~last.clear_existing
    /\ last.matches_created > 0
    /\ \E k \in NewMatchIndexes, j \in 1..Len(matches) \ NewMatchIndexes :
          /\ matches[k].buy_transaction_id = matches[j].buy_transaction_id
          /\ OpenShares(matches, matches[k].buy_transaction_id) = 0

(* C2: a matcher run that directly follows a matcher run (nothing ingested *)
(* in between), does not clear, and loads no row the first run did not     *)
(* load, returns matches_created = 0 and leaves transaction_match_t as it  *)
(* was.                                                                    *)
SecondRunCreatesNothing ==
    [][(/\ last.op = "match"
        /\ last'.op = "match"
        /\ ~last'.clear_existing
        /\ (last.only_unused => last'.only_unused))
       => (last'.matches_created = 0 /\ matches' = matches)]_vars

(* A second run in a row over a table with rows and a sell still unmatched *)
SecondRunWitness ==
    /\ MatcherRan
    /\ last.previous_run # "other"
    /\ ~last.clear_existing
    /\ (last.previous_run = "match_unused" => last.only_unused)
    /\ last.matches_created = 0
    /\ matches # <<>>
    /\ \E s \in LoadedSells : UnsoldShares(matches, s) > 0

(* C3: every Match row a run inserts draws a positive number of shares     *)
(* from a lot that had them unmatched, while every older lot (earlier      *)
(* date, then lower id) the run loaded for that group had none left; for   *)
(* buys of 100 @ A and 50 @ B (A before B) and a sell of 120 the table is  *)
(* exactly 100 from A and 20 from B.                                       *)
FifoOrder ==
    /\ MatcherRan =>
          \A k \in NewMatchIndexes :
              LET row == matches[k]
                  before == SubSeq(matches, 1, k - 1)
              IN  /\ row.shares > 0
                  /\ row.shares <= OpenShares(before, row.buy_transaction_id)
                  /\ \A b \in LoadedBuys :
                        (/\ GroupKey(txs[b]) = row.group_key
                         /\ DateIdBefore(b, row.buy_transaction_id))
                        => OpenShares(before, b) <= 0
    /\ (txs = FifoExampleLedger /\ MatcherRan)
          => MatchTriples = << <<1, 3, 100>>, <<2, 3, 20>> >>

(* One sell was split over two lots, the older of which has the higher id *)
FifoOrderWitness ==
    /\ MatcherRan
    /\ \E k \in NewMatchIndexes, j \in NewMatchIndexes :
          /\ k < j
          /\ matches[k].sell_transaction_id = matches[j].sell_transaction_id
          /\ matches[k].buy_transaction_id > matches[j].buy_transaction_id

(* C4: a run returns as unmatched_sell_shares the shares of the sells it   *)
(* loaded that no Match row covers, a sell is left with such an excess     *)
(* only when no lot the run loaded for its group has shares left, and a    *)
(* sell of 50 shares with no buy lot gives 50 unmatched and no Match row.  *)
UnmatchedExcess ==
    /\ MatcherRan =>
          /\ last.unmatched_sell_shares = TotalUnsold(LoadedSells)
          /\ \A s \in LoadedSells :
                UnsoldShares(matches, s) > 0 =>
                    \A b \in LoadedBuys :
                        GroupKey(txs[b]) = GroupKey(txs[s])
                            => OpenShares(matches, b) <= 0
    /\ (txs = UnmatchedSellLedger /\ MatcherRan)
          => (last.unmatched_sell_shares = 50 /\ matches = <<>>)

(* A sell was matched in part and its excess returned *)
UnmatchedExcessWitness ==
    /\ MatcherRan
    /\ last.unmatched_sell_shares > 0
    /\ \E k \in NewMatchIndexes :
          UnsoldShares(matches, matches[k].sell_transaction_id) > 0

----------------------------------------------------------------------------
(* Properties of the aggregator *)

(* The (broker, security, buy-date, sell-date) tuple of a realized_gain_t  *)
(* row and of a Match row                                                  *)
GainTuple(g) == <<g.group_key, g.buy_date, g.sell_date>>

MatchTuple(m) ==
    <<m.group_key, Val(txs[m.buy_transaction_id].transaction_date),
      Val(txs[m.sell_transaction_id].transaction_date)>>

(* The sums over the Match rows with indexes K that carry the tuple t *)
TupleShares(K, t) ==
    ISum([k \in 1..Len(matches) |->
            IF k \in K /\ MatchTuple(matches[k]) = t
            THEN matches[k].shares ELSE 0])

TupleInvested(K, t) ==
    RSum([k \in 1..Len(matches) |->
            IF k \in K /\ MatchTuple(matches[k]) = t
            THEN matches[k].allocated_cost ELSE RZero])

TupleProfit(K, t) ==
    RSum([k \in 1..Len(matches) |->
            IF k \in K /\ MatchTuple(matches[k]) = t
            THEN RSub(matches[k].allocated_proceeds, matches[k].allocated_cost)
            ELSE RZero])

CarriesSums(g, K) ==
    /\ g.shares = TupleShares(K, GainTuple(g))
    /\ g.invested_value = TupleInvested(K, GainTuple(g))
    /\ g.p_l = TupleProfit(K, GainTuple(g))

(* The rows the last aggregator run inserted and the Match rows it read *)
NewGainIndexes == (Len(gains) - last.positions_created + 1)..Len(gains)
ConsumedMatches ==
    {k \in 1..Len(matches) :
        matches[k].sell_transaction_id \in last.eligible_sell_ids}

(* C10 as stated: realized_gain_t never holds two rows with the same       *)
(* (broker, security, buy-date, sell-date) tuple, and each row carries the *)
(* sums over all Match rows with its tuple.                                *)
OneRowPerTuple ==
    /\ \A i, j \in 1..Len(gains) :
          GainTuple(gains[i]) = GainTuple(gains[j]) => i = j
    /\ \A i \in 1..Len(gains) : CarriesSums(gains[i], 1..Len(matches))

(* C10, amended: each aggregator run inserts exactly one row for every     *)
(* tuple among the Match rows of the sells it consumes, carrying the       *)
(* summed shares, invested value and realized P/L of those Match rows.     *)
OneRowPerTuplePerRun ==
    last.op = "gains" =>
        /\ \A i, j \in NewGainIndexes :
              GainTuple(gains[i]) = GainTuple(gains[j]) => i = j
        /\ \A i \in NewGainIndexes : CarriesSums(gains[i], ConsumedMatches)
        /\ \A k \in ConsumedMatches :
              \E i \in NewGainIndexes :
                  GainTuple(gains[i]) = MatchTuple(matches[k])

(* A later run added a row for a tuple that an earlier run's row carries *)
OneRowPerTuplePerRunWitness ==
    /\ last.op = "gains"
    /\ \E i \in NewGainIndexes, j \in 1..Len(gains) \ NewGainIndexes :
          GainTuple(gains[i]) = GainTuple(gains[j])

(* The sells whose Match rows cover all their shares *)
FullyMatchedSells ==
    {s \in TxIds :
        /\ txs[s].transaction_type = "sell"
        /\ Abs(txs[s].shares) > 0
        /\ MatchedToSell(matches, s) >= Abs(txs[s].shares)}

(* The Match rows of the fully matched sells that no run has used yet *)
UnusedFullMatches ==
    {k \in 1..Len(matches) :
        /\ matches[k].sell_transaction_id \in FullyMatchedSells
        /\ ~txs[matches[k].sell_transaction_id].used_in_realized_gain}

(* C11: an aggregator run consumes fully matched sells only, leaves the    *)
(* used_in_realized_gain flag of every sell that is unmatched or matched   *)
(* in part as it was, and builds the rows it inserts from the Match rows   *)
(* of fully matched sells alone.                                           *)
GainsOnlyFromFullyMatchedSells ==
    [][last'.op = "gains" =>
          /\ last'.eligible_sell_ids \subseteq FullyMatchedSells
          /\ \A s \in TxIds :
                (txs[s].transaction_type = "sell" /\ s \notin FullyMatchedSells)
                    => (txs'[s].used_in_realized_gain
                            = txs[s].used_in_realized_gain)
          /\ \A i \in (Len(gains) + 1)..Len(gains') :
                CarriesSums(gains'[i], UnusedFullMatches)]_vars

(* A run inserted rows while a sell matched in part stayed unflagged *)
GainsOnlyFromFullyMatchedSellsWitness ==
    /\ last.op = "gains"
    /\ last.positions_created > 0
    /\ \E s \in TxIds :
          /\ txs[s].transaction_type = "sell"
          /\ ~txs[s].used_in_realized_gain
          /\ MatchedToSell(matches, s) > 0
          /\ MatchedToSell(matches, s) < Abs(txs[s].shares)

(* C12: an aggregator run that directly follows an aggregator run inserts  *)
(* no row and marks no transaction; every sell a run consumes was unused   *)
(* before the run and is used after it, and no operation ever clears a     *)
(* used_in_realized_gain flag, so the Match rows of a sell are aggregated  *)
(* by at most one run.                                                     *)
SecondAggregationCreatesNothing ==
    [][/\ (last.op = "gains" /\ last'.op = "gains")
             => /\ last'.positions_created = 0
                /\ last'.transactions_marked = 0
                /\ gains' = gains
                /\ txs' = txs
       /\ last'.op = "gains"
             => \A s \in last'.eligible_sell_ids :
                    /\ ~txs[s].used_in_realized_gain
                    /\ txs'[s].used_in_realized_gain
       /\ \A i \in DOMAIN txs :
             txs[i].used_in_realized_gain => txs'[i].used_in_realized_gain]_vars

(* A second run in a row found the sells of the first one used *)
SecondAggregationWitness ==
    /\ last.op = "gains"
    /\ last.previous_op = "gains"
    /\ last.positions_created = 0
    /\ gains # <<>>
    /\ \E s \in FullyMatchedSells : txs[s].used_in_realized_gain

----------------------------------------------------------------------------
(* Properties of the dividend allocator *)

Dividends == {d \in TxIds : txs[d].transaction_type = "dividend"}
DividendAmount(d) == CoalesceAmount(txs[d], FALSE)

(* The rows of dividend_allocation_t of one dividend *)
AllocIndexes(d) == {k \in 1..Len(allocs) : allocs[k].dividend_transaction_id = d}

AllocatedTotal(d) ==
    RSum([k \in 1..Len(allocs) |->
            IF k \in AllocIndexes(d) THEN allocs[k].allocated_amount ELSE RZero])

(* The dividends the last allocator run processed, the ones it allocated   *)
(* and the rows it inserted                                                *)
AllocatorRan == last.op = "allocate"
ProcessedPositions == 1..Len(last.dividend_rows)
NewAllocIndexes == (Len(allocs) - last.allocations_created + 1)..Len(allocs)

(* The date of the dividend of the same group that the run processed       *)
(* before the dividend at position p: Null when there is none              *)
PreviousInRun(p) ==
    LET d == last.dividend_rows[p]
        earlier == {q \in 1..(p - 1) :
                      /\ GroupKey(txs[last.dividend_rows[q]]) = GroupKey(txs[d])
                      /\ txs[last.dividend_rows[q]].transaction_date # Null}
    IN  IF earlier = {} THEN Null
        ELSE txs[last.dividend_rows[CHOOSE q \in earlier :
                                       \A q2 \in earlier : q2 <= q]].transaction_date

(* Open on the dividend date: bought strictly before it and not sold       *)
(* before it                                                               *)
OpenOnDate(seg, dt) ==
    /\ seg.buy_date < dt
    /\ (seg.sell_date = Null \/ Val(seg.sell_date) >= dt)

(* Open at some time since the previous dividend: bought strictly before   *)
(* the dividend date and not sold, sold on or after the dividend date, or  *)
(* sold after the previous dividend's date (sold at any time when the run  *)
(* processed no earlier dividend of the group)                             *)
OpenSincePrevious(seg, dt, previous) ==
    /\ seg.buy_date < dt
    /\ \/ seg.sell_date = Null
       \/ Val(seg.sell_date) >= dt
       \/ previous = Null
       \/ Val(seg.sell_date) > Val(previous)

(* The holding segments of the group of the dividend at position p *)
SegmentsAt(p) == SortedSegments(GroupKey(txs[last.dividend_rows[p]]))

(* The shares of the segments of buy b among them that satisfy Open(_) *)
SharesHeld(p, b, Open(_)) ==
    LET segs == SegmentsAt(p)
    IN  ISum([i \in 1..Len(segs) |->
                IF segs[i].buy_transaction_id = b /\ Open(segs[i])
                THEN segs[i].shares ELSE 0])

(* C5 as stated: the allocated_amount of the rows of every allocated       *)
(* dividend sum to the dividend's amount.                                  *)
AllocationConservesAmount ==
    \A d \in Dividends :
        txs[d].allocated => AllocatedTotal(d) = DividendAmount(d)

(* C6 as stated: the rows a run writes for a dividend give each buy at     *)
(* most the shares of its segments that were bought strictly before the    *)
(* dividend date and are unsold or sold on or after it.                    *)
EligibilityWindow ==
    AllocatorRan =>
        \A p \in ProcessedPositions :
            LET d == last.dividend_rows[p]
                Open(seg) == OpenOnDate(seg, Val(txs[d].transaction_date))
            IN  \A k \in AllocIndexes(d) :
                    allocs[k].shares
                        <= SharesHeld(p, allocs[k].buy_transaction_id, Open)

(* C6, amended: the rows a run writes for a dividend give each buy at most *)
(* the shares of its segments that were bought strictly before the         *)
(* dividend date and are unsold, or sold on or after the dividend date, or *)
(* sold after the date of the previous dividend of the group in that run   *)
(* (sold at any time for the first dividend of the group in the run).      *)
EligibilityWindowSincePrevious ==
    AllocatorRan =>
        \A p \in ProcessedPositions :
            LET d == last.dividend_rows[p]
                Open(seg) == OpenSincePrevious(seg, Val(txs[d].transaction_date),
                                               PreviousInRun(p))
            IN  \A k \in AllocIndexes(d) :
                    allocs[k].shares
                        <= SharesHeld(p, allocs[k].buy_transaction_id, Open)

(* A run allocated one dividend to a buy whose segment was sold before the *)
(* dividend's date, and allocated a later dividend without that segment,   *)
(* which was sold before the earlier dividend                              *)
EligibilityWindowWitness ==
    /\ AllocatorRan
    /\ \E p \in ProcessedPositions, q \in ProcessedPositions :
          LET d == last.dividend_rows[p]
              e == last.dividend_rows[q]
              segs == SegmentsAt(p)
          IN  /\ p < q
              /\ txs[d].allocated /\ txs[e].allocated
              /\ \E i \in 1..Len(segs) :
                    /\ segs[i].sell_date # Null
                    /\ segs[i].buy_date < Val(txs[d].transaction_date)
                    /\ Val(segs[i].sell_date) < Val(txs[d].transaction_date)
                    /\ \E k \in AllocIndexes(d) :
                          /\ allocs[k].buy_transaction_id = segs[i].buy_transaction_id
                          /\ allocs[k].shares >= segs[i].shares
                    /\ segs[i].buy_date < Val(txs[e].transaction_date)
                    /\ ~OpenSincePrevious(segs[i], Val(txs[e].transaction_date),
                                          PreviousInRun(q))

(* The ledger without what the allocator writes into it *)
LedgerAsIngested ==
    [i \in DOMAIN txs |->
        [txs[i] EXCEPT !.allocated = FALSE, !.error_message = Null]]

AllocationQuads ==
    [k \in 1..Len(allocs) |->
        <<allocs[k].dividend_transaction_id, allocs[k].buy_transaction_id,
          allocs[k].shares, allocs[k].allocated_amount>>]

DividendScenarioRan ==
    /\ AllocatorRan
    /\ last.dividends_processed = 2
    /\ LedgerAsIngested = DividendExampleLedger
    /\ MatchTriples = << <<1, 2, 100>>, <<3, 4, 100>>, <<5, 6, 70>> >>

(* C7: on the ledger of the end-to-end scenario (rows 1, 3, 5: the buys of *)
(* 100, 100 and 70 shares matched to the sells 2, 4, 6; row 7: the open    *)
(* buy of 100; rows 8 and 9: the dividends for 100 and 350 shares) a run   *)
(* that processes both dividends allocates both, fails none and writes     *)
(* exactly five rows: 100 shares of the first dividend to the first lot    *)
(* and 100/100/70/80 shares of the second to the four lots.                *)
DividendScenario ==
    DividendScenarioRan =>
        /\ last.dividends_allocated = 2
        /\ last.dividends_failed = 0
        /\ last.allocations_created = 5
        /\ AllocationQuads =
              << <<8, 1, 100, RInt(100)>>,
                 <<9, 1, 100, RInt(100)>>, <<9, 3, 100, RInt(100)>>,
                 <<9, 5, 70, RInt(70)>>, <<9, 7, 80, RInt(80)>> >>

DividendScenarioWitness ==
    /\ DividendScenarioRan
    /\ Len(allocs) = 5
    /\ txs[8].allocated /\ txs[9].allocated

(* Whether the dividend at position p of the last run had to fail: no      *)
(* date, a zero amount, no eligible segment, or no positive share total    *)
MustFail(p) ==
    LET d == last.dividend_rows[p]
        dt == txs[d].transaction_date
        segs == SegmentsAt(p)
        eligible == {i \in 1..Len(segs) :
                        OpenSincePrevious(segs[i], Val(dt), PreviousInRun(p))}
        held == ISum([i \in 1..Len(segs) |->
                        IF i \in eligible THEN segs[i].shares ELSE 0])
    IN  \/ dt = Null
        \/ DividendAmount(d) = RZero
        \/ eligible = {}
        \/ (Abs(txs[d].shares) <= 0 /\ held <= 0)

(* C8: a run ends every dividend that has a zero amount, no eligible       *)
(* segment or no positive share total with error_message set, allocated =  *)
(* 0 and no row, ends every other dividend it loaded with allocated = 1,   *)
(* no error_message and rows, leaves no dividend unprocessed, and returns  *)
(* dividends_processed = dividends_allocated + dividends_failed.           *)
FailuresStayLocal ==
    AllocatorRan =>
        /\ last.dividends_processed = last.dividends_allocated + last.dividends_failed
        /\ last.dividends_processed = Len(last.dividend_rows)
        /\ last.dividends_failed =
              Cardinality({p \in ProcessedPositions : MustFail(p)})
        /\ \A d \in Dividends : txs[d].allocated \/ txs[d].error_message # Null
        /\ \A p \in ProcessedPositions :
              LET d == last.dividend_rows[p]
              IN  IF MustFail(p)
                  THEN /\ ~txs[d].allocated
                       /\ txs[d].error_message # Null
                       /\ AllocIndexes(d) = {}
                  ELSE /\ txs[d].allocated
                       /\ txs[d].error_message = Null
                       /\ AllocIndexes(d) # {}

(* A run failed a dividend with a zero amount and allocated a later one *)
FailuresStayLocalWitness ==
    /\ AllocatorRan
    /\ last.dividends_failed > 0
    /\ \E p \in ProcessedPositions, q \in ProcessedPositions :
          /\ p < q
          /\ MustFail(p)
          /\ DividendAmount(last.dividend_rows[p]) = RZero
          /\ ~MustFail(q)

(* C9: dividend_allocation_t never holds two rows with the same dividend   *)
(* and buy, however many segments of the buy took part, and after a run    *)
(* the only rows of a dividend the run processed are the ones the run      *)
(* inserted.                                                               *)
OneRowPerDividendAndBuy ==
    /\ \A i, j \in 1..Len(allocs) :
          (/\ allocs[i].dividend_transaction_id = allocs[j].dividend_transaction_id
           /\ allocs[i].buy_transaction_id = allocs[j].buy_transaction_id)
          => i = j
    /\ AllocatorRan =>
          \A p \in ProcessedPositions :
              AllocIndexes(last.dividend_rows[p]) \subseteq NewAllocIndexes

(* One row holds the shares of two segments of its buy *)
OneRowPerDividendAndBuyWitness ==
    /\ AllocatorRan
    /\ \E p \in ProcessedPositions :
          LET segs == SegmentsAt(p)
          IN  \E k \in AllocIndexes(last.dividend_rows[p]),
                 i \in 1..Len(segs), j \in 1..Len(segs) :
                  /\ i # j
                  /\ segs[i].buy_transaction_id = allocs[k].buy_transaction_id
                  /\ segs[j].buy_transaction_id = allocs[k].buy_transaction_id
                  /\ allocs[k].shares = segs[i].shares + segs[j].shares

----------------------------------------------------------------------------
(* Properties of the transaction each run works in *)

FailedOps == {"match_failed", "allocate_failed", "gains_failed"}
RunOps == {"match", "allocate", "gains"}

(* What the stopped run had written before it stopped *)
UncommittedWrites ==
    CASE last.op = "match_failed" -> last.deleted + last.inserted
      [] last.op = "allocate_failed" -> last.dividends_allocated + last.dividends_failed
      [] last.op = "gains_failed" -> last.inserted
      [] OTHER -> 0

FailedMatcherWitness ==
    /\ last.op = "match_failed"
    /\ last.deleted > 0
    /\ matches # <<>>

(* A stopped allocator run had allocated a dividend *)
FailedAllocatorWitness ==
    /\ last.op = "allocate_failed"
    /\ last.allocations_created > 0
    /\ allocs = <<>>
    /\ \A i \in TxIds : ~txs[i].allocated

(* The columns of a transaction_t row no run writes *)
ImportedColumns(row) ==
    [row EXCEPT !.used_in_realized_gain = FALSE, !.allocated = FALSE,
                !.error_message = Null]

(* C14: a run never adds, removes or re-imports a transaction_t row: the   *)
(* matcher writes no column at all, the allocator only allocated and       *)
(* error_message of dividend rows, the aggregator only                     *)
(* used_in_realized_gain.                                                  *)
RunsWriteOnlyTheirFlags ==
    [][last'.op \in RunOps \cup FailedOps =>
          /\ DOMAIN txs' = DOMAIN txs
          /\ \A i \in TxIds : ImportedColumns(txs'[i]) = ImportedColumns(txs[i])
          /\ last'.op = "match" => txs' = txs
          /\ last'.op = "allocate" =>
                \A i \in TxIds :
                    /\ txs'[i].used_in_realized_gain = txs[i].used_in_realized_gain
                    /\ txs[i].transaction_type # "dividend" => txs'[i] = txs[i]
          /\ last'.op = "gains" =>
                \A i \in TxIds :
                    /\ txs'[i].allocated = txs[i].allocated
                    /\ txs'[i].error_message = txs[i].error_message]_vars

(* After an aggregator run that followed an allocator run: a dividend      *)
(* carries the error message of the allocator and the flag of the          *)
(* aggregator, and a sell and a buy carry the aggregator's flag only       *)
RunsWriteOnlyTheirFlagsWitness ==
    /\ last.op = "gains"
    /\ last.transactions_marked > 0
    /\ \E d \in TxIds :
          /\ txs[d].transaction_type = "dividend"
          /\ txs[d].used_in_realized_gain
          /\ ~txs[d].allocated
          /\ txs[d].error_message # Null
    /\ \E s \in TxIds :
          /\ txs[s].transaction_type = "sell"
          /\ txs[s].used_in_realized_gain
          /\ ~txs[s].allocated
          /\ txs[s].error_message = Null

----------------------------------------------------------------------------
(* Properties of clear_existing *)

(* FIFO matching of the whole buy/sell ledger, starting from an empty      *)
(* transaction_match_t                                                     *)
FullRebuild ==
    The({MatchGroups(rows, {GroupKey(txs[i]) : i \in rows}, <<>>, <<>>, 0).out
            : rows \in {TradeRows(FALSE)}})

(* The transactions that have a Match row in ms *)
MatchedIn(ms) ==
    {ms[k].buy_transaction_id : k \in DOMAIN ms}
        \cup {ms[k].sell_transaction_id : k \in DOMAIN ms}

(* C15: after a run with clear_existing, whatever only_unused is, the      *)
(* table is the FIFO matching of the whole ledger from an empty table.     *)
ClearExistingIsFullRebuild ==
    (last.op = "match" /\ last.clear_existing) => matches = FullRebuild

(* C15, second half: a run without clear_existing only appends rows, and a *)
(* run with clear_existing keeps every matched transaction matched.        *)
ClearExistingKeepsMatched ==
    [][last'.op = "match" =>
          /\ ~last'.clear_existing =>
                /\ Len(matches') >= Len(matches)
                /\ SubSeq(matches', 1, Len(matches)) = matches
          /\ last'.clear_existing => MatchedIn(matches) \subseteq MatchedIn(matches')]_vars

(* C15 for the runs that select every buy and sell (only_unused off) *)
ClearExistingOfAllRowsIsFullRebuild ==
    (last.op = "match" /\ last.clear_existing /\ ~last.only_unused)
        => matches = FullRebuild

(* C15 for the runs without clear_existing *)
DefaultModeOnlyAppends ==
    [][(last'.op = "match" /\ ~last'.clear_existing) =>
          /\ Len(matches') >= Len(matches)
          /\ SubSeq(matches', 1, Len(matches)) = matches]_vars

----------------------------------------------------------------------------
(* Properties of the XIRR engine *)

XirrOps == {"xirr", "xirr_closed", "xirr_flows"}

HasPositive(cashflows) == \E i \in DOMAIN cashflows : cashflows[i][2][1] > 0
HasNegative(cashflows) == \E i \in DOMAIN cashflows : cashflows[i][2][1] < 0

(* One entry per date, in date order *)
OnePerDate(cashflows) ==
    \A i, j \in DOMAIN cashflows : i < j => cashflows[i][1] < cashflows[j][1]

(* C16: _xirr_from_cashflows returns None for fewer than two flows and for *)
(* flows without a strictly positive or without a strictly negative        *)
(* amount; both XIRR modes hand it one total per date, so a ledger whose   *)
(* amounts cancel within each date has no result either.                   *)
NoResultWithoutSignChange ==
    last.op \in XirrOps =>
        /\ (\/ Len(last.cashflows) < 2
            \/ ~HasPositive(last.cashflows)
            \/ ~HasNegative(last.cashflows)) => last.result = Null
        /\ last.op \in {"xirr", "xirr_closed"} => OnePerDate(last.cashflows)

(* A buy and a sell of one day cancel: the ledger has an outflow and an    *)
(* inflow, the only per-date total is zero, and there is no result         *)
NoResultWithoutSignChangeWitness ==
    /\ last.op = "xirr"
    /\ last.result = Null
    /\ Len(last.cashflows) = 1
    /\ last.cashflows[1][2] = RZero
    /\ \E b, s \in TxIds :
          /\ txs[b].transaction_type = "buy"
          /\ txs[s].transaction_type = "sell"
          /\ txs[b].transaction_date = txs[s].transaction_date
          /\ CoalesceAmount(txs[b], TRUE) # RZero

(* Two flows of one sign handed to _xirr_from_cashflows *)
OneSignWitness ==
    /\ last.op = "xirr_flows"
    /\ Len(last.cashflows) = 2
    /\ HasPositive(last.cashflows)
    /\ ~HasNegative(last.cashflows)
    /\ last.result = Null

(* A search is started when there are two flows of opposite sign *)
SearchWitness ==
    /\ last.op = "xirr_flows"
    /\ last.result # Null
    /\ HasPositive(last.cashflows)
    /\ HasNegative(last.cashflows)

(* The ledger of one buy of 10 shares at 100, asked for its return *)
OpenPositionAsked == txs = OpenPositionLedger /\ last.op = "xirr"
OpenPositionBuyDate == Val(OpenPositionLedger[1].transaction_date)

FlowAt(cashflows, dt) == IF dt \in DOMAIN cashflows THEN cashflows[dt] ELSE RZero

(* The dated rows of the ledger on a date, by id, and all ledger dates *)
RowsOn(dt) ==
    LET idx == {i \in TxIds : txs[i].transaction_date = Some(dt)}
    IN  SortByKey(idx, [i \in idx |-> <<i>>])
LedgerDates == {Val(txs[i].transaction_date) : i \in {j \in TxIds : txs[j].transaction_date # Null}}

(* The flow C18 gives a ledger row: minus the absolute amount of a buy,    *)
(* plus the absolute amount of every other row, dividends included         *)
ClaimedFlow(i) ==
    IF txs[i].transaction_type = "buy" THEN RNeg(RAbs(CoalesceAmount(txs[i], TRUE)))
    ELSE RAbs(CoalesceAmount(txs[i], TRUE))

(* The flow a ledger row has in the code: a dividend counts only once it   *)
(* is allocated, and then with the sum of its allocation rows as stored    *)
LedgerFlow(i) ==
    IF txs[i].transaction_type = "dividend"
    THEN (IF txs[i].allocated THEN AllocatedTotal(i) ELSE RZero)
    ELSE ClaimedFlow(i)

(* C18 as stated: before the valuation is added, the total of every date   *)
(* is the sum over the ledger rows of that date of minus the absolute      *)
(* amount of a buy and plus the absolute amount of a sell, dividend,       *)
(* interest or distribution.                                               *)
EveryLedgerRowIsAFlow ==
    (last.op = "xirr" /\ XirrLedgerRows # <<>>) =>
        \A dt \in LedgerDates :
            FlowAt(last.ledger_cashflows, dt)
                = The({RSum([k \in DOMAIN rows |-> ClaimedFlow(rows[k])])
                          : rows \in {RowsOn(dt)}})

(* C18: before the valuation is added, the total of every date is the sum  *)
(* of minus the absolute amount of each buy and plus the absolute amount   *)
(* of each sell, interest and distribution row of that date, and of the    *)
(* allocation rows of each dividend of that date that is flagged           *)
(* allocated; a dividend that is not allocated adds nothing; no other date *)
(* has a total; the valuation goes to the valuation date only.             *)
LedgerRowsAndAllocationsAreFlows ==
    (last.op = "xirr" /\ XirrLedgerRows # <<>>) =>
        /\ DOMAIN last.ledger_cashflows \subseteq LedgerDates
        /\ \A dt \in LedgerDates :
              FlowAt(last.ledger_cashflows, dt)
                  = The({RSum([k \in DOMAIN rows |-> LedgerFlow(rows[k])])
                            : rows \in {RowsOn(dt)}})
        /\ \A i \in DOMAIN last.cashflows :
              \/ last.valuation_date = Some(last.cashflows[i][1])
              \/ last.cashflows[i][2] = FlowAt(last.ledger_cashflows, last.cashflows[i][1])

(* A reversed distribution counted as an inflow, an allocated dividend     *)
(* counted with its allocation rows, next to a buy                         *)
LedgerRowsAndAllocationsWitness ==
    /\ last.op = "xirr"
    /\ \E i \in TxIds :
          /\ txs[i].transaction_type = "distribution"
          /\ RLt(CoalesceAmount(txs[i], TRUE), RZero)
    /\ \E d \in Dividends :
          /\ txs[d].allocated
          /\ AllocatedTotal(d) # RZero
          /\ Val(txs[d].transaction_date) \in DOMAIN last.ledger_cashflows
    /\ \E b \in TxIds : txs[b].transaction_type = "buy"

(* A dividend that is not allocated is in no flow *)
UnallocatedDividendWitness ==
    /\ last.op = "xirr"
    /\ \E d \in Dividends :
          /\ ~txs[d].allocated
          /\ DividendAmount(d) # RZero
          /\ Val(txs[d].transaction_date) \notin DOMAIN last.ledger_cashflows
    /\ last.ledger_cashflows # <<>>

(* The shares of a buy that are in no Match row *)
UnrealizedShares(b) == Abs(txs[b].shares) - MatchedToBuy(matches, b)

(* The cash flows C19 lists, as per-date totals: for each Match row minus  *)
(* its allocated cost on the buy date and plus its allocated proceeds on   *)
(* the sell date, and the allocated amount of each DividendAllocation of a *)
(* dated dividend whose buy has a Match row                                *)
MatchFlowOn(k, dt) ==
    RAdd(IF txs[matches[k].buy_transaction_id].transaction_date = Some(dt)
         THEN RNeg(matches[k].allocated_cost) ELSE RZero,
         IF txs[matches[k].sell_transaction_id].transaction_date = Some(dt)
         THEN matches[k].allocated_proceeds ELSE RZero)

AllocationFlowOn(k, dt) ==
    IF /\ txs[allocs[k].dividend_transaction_id].transaction_date = Some(dt)
       /\ MatchedToBuy(matches, allocs[k].buy_transaction_id) > 0
    THEN allocs[k].allocated_amount ELSE RZero

ClosedFlowOn(dt) ==
    RAdd(RSum([k \in DOMAIN matches |-> MatchFlowOn(k, dt)]),
         RSum([k \in DOMAIN allocs |-> AllocationFlowOn(k, dt)]))

ClosedFlowsAsListed ==
    (last.op = "xirr_closed" /\ matches # <<>>) =>
        \A i \in DOMAIN last.cashflows :
            last.cashflows[i][2] = ClosedFlowOn(last.cashflows[i][1])

(* C19: in closed-only mode the flows are the ones listed above and none   *)
(* of them stems from an unrealized position: no dividend allocation that  *)
(* is counted covers shares of its buy that are in no Match row.           *)
ClosedFlowsExcludeUnrealized ==
    last.op = "xirr_closed" =>
        /\ ClosedFlowsAsListed
        /\ \A k \in DOMAIN last.dividend_rows :
              LET a == last.dividend_rows[k]
              IN  a.allocated_amount # RZero =>
                     a.shares <= MatchedToBuy(matches, a.buy_transaction_id)

(* A counted dividend allocation covers the sold and the unsold shares of  *)
(* its buy                                                                 *)
ClosedFlowFromUnrealizedShares ==
    /\ last.op = "xirr_closed"
    /\ \E k \in DOMAIN last.dividend_rows :
          LET a == last.dividend_rows[k]
          IN  /\ UnrealizedShares(a.buy_transaction_id) > 0
              /\ a.shares = Abs(txs[a.buy_transaction_id].shares)
              /\ RLt(RZero, a.allocated_amount)

----------------------------------------------------------------------------
(* Properties of the CAGR *)

(* The results for a non-positive final value whose number is worked out:  *)
(* of _calculate_cagr itself, and in the row of a position                 *)
CagrLoss ==
    IF last.op = "cagr" /\ last.result.kind = "loss" /\ last.result.value # Null
    THEN {last.result}
    ELSE IF /\ last.op = "position"
            /\ last.row.cagr_percentage.kind = "loss"
            /\ last.row.cagr_percentage.value # Null
    THEN {last.row.cagr_percentage}
    ELSE {}

(* |final_value| / invested_value of the call or position *)
CagrLossRatio ==
    IF last.op = "cagr" THEN RDiv(RAbs(last.final_value), last.initial_value)
    ELSE RDiv(RAbs(RAdd(RAdd(last.position.invested_value, last.position.realized_pl),
                        last.position.total_dividend)),
              last.position.invested_value)

(* C20 as stated: for a non-positive final value the CAGR is               *)
(* -100 x (1 - |final_value| / invested_value).                            *)
CagrOfLossIsLinear ==
    \A c \in CagrLoss :
        Val(c.value) = RMul(RInt(-100), RSub(RInt(1), CagrLossRatio))

(* C20: for a non-positive final value the CAGR is                         *)
(* -100 x (1 - (|final_value| / invested_value) ^ (1 / years)): with       *)
(* x = 1 + CAGR / 100, x >= 0 and x ^ n = ratio ^ d for years = n / d.     *)
(* With invested_value = 1000, final_value = 0 and years = 2 it is -100.   *)
CagrOfLossTakesRoot ==
    /\ \A c \in CagrLoss :
          LET x == RAdd(RInt(1), RDiv(Val(c.value), RInt(100)))
          IN  /\ RLe(RZero, x)
              /\ c.ratio = CagrLossRatio
              /\ RPower(x, c.years[1]) = RPower(c.ratio, c.years[2])
    /\ (/\ last.op = "cagr"
        /\ last.initial_value = RInt(1000)
        /\ last.final_value = RZero
        /\ last.years = RInt(2)) => last.result.value = Some(RInt(-100))

(* A loss to a quarter of the invested value over two years: -50, where    *)
(* the formula without the root gives -75                                  *)
CagrOfLossTakesRootWitness ==
    /\ last.op = "cagr"
    /\ last.initial_value = RInt(4)
    /\ last.final_value = RInt(-1)
    /\ last.years = RInt(2)
    /\ last.result.value = Some(RInt(-50))

(* The documented example *)
CagrOfTotalLossWitness ==
    /\ last.op = "cagr"
    /\ last.initial_value = RInt(1000)
    /\ last.final_value = RZero
    /\ last.years = RInt(2)
    /\ last.result.value = Some(RInt(-100))

(* The row of a position held for four years whose final value is -1 of    *)
(* 16 invested: -50                                                        *)
CagrOfPositionWitness ==
    /\ last.op = "position"
    /\ last.row.cagr_percentage.kind = "loss"
    /\ last.row.cagr_percentage.years = RInt(4)
    /\ last.row.cagr_percentage.value = Some(RInt(-50))

----------------------------------------------------------------------------
(* Properties of the rate the search returns.  For one outflow followed by *)
(* one inflow npv falls strictly as the rate rises, the first bracket      *)
(* [-0.9999, 0.1 * 2 ** k] holds its one root, and the bisection returns a *)
(* rate whose npv is below 1e-7 in size or the midpoint of a bracket       *)
(* 2 ** -200 times as wide: the rate returned lies above every rate with a *)
(* positive npv and below every rate with a negative one.                  *)

RoundTripAsked == last.op = "xirr_flows" /\ last.cashflows = RoundTripFlows

(* The rate returned is at least lower and at most upper, as far as the    *)
(* sign of npv at the two rates refutes it                                 *)
RateNotOutside(result, lower, upper) ==
    /\ result # Null
    /\ NpvSign(result.search, lower) # -1
    /\ NpvSign(result.search, upper) # 1

(* The rate returned lies strictly between lower and upper *)
RateBetween(result, lower, upper) ==
    /\ result # Null
    /\ NpvSign(result.search, lower) = 1
    /\ NpvSign(result.search, upper) = -1

(* C21 as stated: for -1000 on day 0 and +1100 on day 365 the rate is      *)
(* within 1e-6 of 0.10.                                                    *)
RoundTripIsTenPercent ==
    RoundTripAsked =>
        RateNotOutside(last.result, Rat(99999, 1000000), Rat(100001, 1000000))

(* C21: for -1000 on day 0 and +1100 on day 365 the search runs on the     *)
(* flows at 0 and 365 / 365.25 years and the rate it returns lies between  *)
(* 0.10006 and 0.10008 (it is 1.1 ** (365.25 / 365) - 1): within 1e-4 of   *)
(* 0.10, and more than 1e-6 above it.                                      *)
RoundTripIsAboveTenPercent ==
    RoundTripAsked =>
        /\ last.result # Null
        /\ last.result.search = <<<<0, RInt(-1000)>>, <<365, RInt(1100)>>>>
        /\ RateBetween(last.result, Rat(10006, 100000), Rat(10008, 100000))
        /\ NpvSign(last.result.search, Rat(100001, 1000000)) = 1

RoundTripWitness ==
    /\ RoundTripAsked
    /\ last.result # Null
    /\ NpvSign(last.result.search, Rat(1, 10)) = 1
    /\ NpvSign(last.result.search, Rat(2, 10)) = -1

----------------------------------------------------------------------------
(* Properties of the dates of Match rows *)

(* Every Match row links a buy and a sell of its own (broker, security) *)
MatchLinksOneGroup ==
    \A k \in DOMAIN matches :
        /\ txs[matches[k].buy_transaction_id].transaction_type = "buy"
        /\ txs[matches[k].sell_transaction_id].transaction_type = "sell"
        /\ GroupKey(txs[matches[k].buy_transaction_id]) = matches[k].group_key
        /\ GroupKey(txs[matches[k].sell_transaction_id]) = matches[k].group_key

(* C22 as stated: every Match row links a sell to a buy of the same        *)
(* (broker, security) dated on or before the sell.                         *)
MatchLinksEarlierBuy ==
    \A k \in DOMAIN matches :
        /\ GroupKey(txs[matches[k].buy_transaction_id])
               = GroupKey(txs[matches[k].sell_transaction_id])
        /\ Val(txs[matches[k].buy_transaction_id].transaction_date)
               <= Val(txs[matches[k].sell_transaction_id].transaction_date)

(* A sell left unmatched by one run and matched by a later run to a buy    *)
(* dated after it                                                          *)
MatchedToLaterBuy ==
    /\ MatcherRan
    /\ \E k \in DOMAIN matches :
          /\ matches[k].buy_transaction_id > matches[k].sell_transaction_id
          /\ Val(txs[matches[k].buy_transaction_id].transaction_date)
                 > Val(txs[matches[k].sell_transaction_id].transaction_date)

----------------------------------------------------------------------------
(* Properties of dividends allocated in different runs *)

(* The rows of dividend_allocation_t of one dividend, in insertion order *)
RowsOfDividend(d) == SelectSeq(allocs, LAMBDA a : a.dividend_transaction_id = d)

(* The rows a run writes for dividend d when it has processed a dividend   *)
(* of the group dated `previous` before it: none when d fails              *)
RowsAfterPrevious(d, previous) ==
    LET r == AllocateForDividend(d, Val(txs[d].transaction_date), previous)
    IN  IF r.success THEN r.rows ELSE <<>>

(* The dividends of d's group dated before d that were allocated by an     *)
(* earlier run than the last one                                           *)
AllocatedEarlier(d) ==
    {e \in Dividends :
        /\ GroupKey(txs[e]) = GroupKey(txs[d])
        /\ txs[e].allocated
        /\ \A p \in ProcessedPositions : last.dividend_rows[p] # e
        /\ Val(txs[e].transaction_date) < Val(txs[d].transaction_date)}

LaterRunAllocatesSoldLot ==
    /\ AllocatorRan
    /\ \E p \in ProcessedPositions :
          LET d2 == last.dividend_rows[p]
          IN  \E d1 \in AllocatedEarlier(d2) :
                  /\ RowsAfterPrevious(d2, txs[d1].transaction_date) = <<>>
                  /\ RowsOfDividend(d2) # <<>>

----------------------------------------------------------------------------
(* Properties of a second allocator run *)

(* The allocated flag of every row of transaction_t *)
AllocatedFlags(tx) == [i \in DOMAIN tx |-> tx[i].allocated]

(* C24 as stated: an allocator run that directly follows an allocator run  *)
(* (nothing was ingested and no Match row written in between) loads no     *)
(* dividend with allocated = 1 and leaves dividend_allocation_t and every  *)
(* allocated flag as they were.                                            *)
SecondAllocationChangesNothing ==
    [][(last.op = "allocate" /\ last'.op = "allocate") =>
          /\ \A p \in 1..Len(last'.dividend_rows) :
                ~txs[last'.dividend_rows[p]].allocated
          /\ allocs' = allocs
          /\ AllocatedFlags(txs') = AllocatedFlags(txs)]_vars

(* Dividends with allocated = 1 are not loaded again, and their rows stay *)
AllocatedDividendsStay ==
    [][last'.op = "allocate" =>
          \A d \in Dividends :
              txs[d].allocated =>
                  /\ \A p \in 1..Len(last'.dividend_rows) : last'.dividend_rows[p] # d
                  /\ txs'[d].allocated
                  /\ SelectSeq(allocs', LAMBDA a : a.dividend_transaction_id = d)
                         = SelectSeq(allocs, LAMBDA a : a.dividend_transaction_id = d)]_vars

----------------------------------------------------------------------------
(* Properties of the dividends of realized positions *)

(* The dividends of a group that an aggregator run reads: unused, dated,   *)
(* with a nonzero amount                                                   *)
DividendsToCredit(key) ==
    {d \in Dividends : /\ GroupKey(txs[d]) = key
                       /\ ~txs[d].used_in_realized_gain
                       /\ txs[d].transaction_date # Null
                       /\ DividendAmount(d) # RZero}

(* The holding segments of the position of row g that the allocator's rule *)
(* makes eligible for dividend d (no previous dividend)                    *)
EligibleLotsOf(g, d) ==
    LET segs == SortedSegments(g.group_key)
    IN  {i \in DOMAIN segs :
            /\ segs[i].buy_date = g.buy_date
            /\ segs[i].sell_date = Some(g.sell_date)
            /\ SegmentEligible(segs[i], Val(txs[d].transaction_date), Null)}

(* The allocator's total distributable shares of dividend d *)
DistributableShares(d) ==
    LET eligible == EligibleSegments(SortedSegments(GroupKey(txs[d])),
                                     Val(txs[d].transaction_date), Null)
    IN  IF GtTol(Abs(txs[d].shares)) THEN Abs(txs[d].shares)
        ELSE ISum([i \in DOMAIN eligible |-> eligible[i].shares])

(* C25 as stated, for the positions of a group with one dividend to        *)
(* credit: a position is credited only when the allocator's rule makes one *)
(* of its lots eligible, and when it is credited (no share count declared) *)
(* its total_dividend is position shares x amount / total distributable    *)
(* shares.                                                                 *)
GainsFollowAllocatorRule ==
    [][last'.op = "gains" =>
          \A n \in (Len(gains) + 1)..Len(gains') :
              LET g == gains'[n]
              IN  \A d \in DividendsToCredit(g.group_key) :
                      DividendsToCredit(g.group_key) = {d} =>
                          IF EligibleLotsOf(g, d) = {}
                          THEN g.dividend_count = 0 /\ g.total_dividend = RZero
                          ELSE (Abs(txs[d].shares) = 0 /\ g.dividend_count > 0) =>
                                  g.total_dividend =
                                      RDiv(RMul(RInt(g.shares), DividendAmount(d)),
                                           RInt(DistributableShares(d)))]_vars

(* A position bought on the day of a dividend is credited with it *)
CreditedOnBuyDate ==
    /\ last.op = "gains"
    /\ \E n \in NewGainIndexes, d \in Dividends :
          /\ GroupKey(txs[d]) = gains[n].group_key
          /\ txs[d].transaction_date = Some(gains[n].buy_date)
          /\ gains[n].dividend_count = 1
          /\ gains[n].total_dividend # RZero

----------------------------------------------------------------------------
(* Properties of the used_in_realized_gain flags *)

(* Shares of the Match rows that link buy b to sells flagged used in tx *)
MatchedToUsedSells(tx, b) ==
    ISum([k \in 1..Len(matches) |->
            IF /\ matches[k].buy_transaction_id = b
               /\ tx[matches[k].sell_transaction_id].used_in_realized_gain
            THEN matches[k].shares ELSE 0])

(* C26: after an aggregator run every sell it consumed is flagged          *)
(* used_in_realized_gain, and a buy that was unflagged before the run is   *)
(* flagged after it exactly when the Match shares linking it to sells that *)
(* are flagged (before or in this run) cover all of its shares; a buy with *)
(* unmatched shares, or matched only to sells not yet processed, stays     *)
(* unflagged.                                                              *)
RunFlagsSellsAndCoveredBuys ==
    [][(last'.op = "gains" /\ last'.eligible_sell_ids # {}) =>
          /\ \A s \in last'.eligible_sell_ids : txs'[s].used_in_realized_gain
          /\ \A b \in TxIds :
                (txs[b].transaction_type = "buy" /\ ~txs[b].used_in_realized_gain)
                    => (txs'[b].used_in_realized_gain
                          <=> /\ Abs(txs[b].shares) > 0
                              /\ MatchedToUsedSells(txs', b) >= Abs(txs[b].shares))]_vars

(* A run flagged a buy whose shares are covered only together with a sell  *)
(* that an earlier run had flagged                                         *)
RunFlagsSellsAndCoveredBuysWitness ==
    /\ last.op = "gains"
    /\ last.eligible_sell_ids # {}
    /\ \E b \in TxIds :
          /\ txs[b].transaction_type = "buy"
          /\ txs[b].used_in_realized_gain
          /\ \E k \in 1..Len(matches) :
                /\ matches[k].buy_transaction_id = b
                /\ matches[k].sell_transaction_id \in last.eligible_sell_ids
          /\ \E k \in 1..Len(matches) :
                /\ matches[k].buy_transaction_id = b
                /\ matches[k].sell_transaction_id \notin last.eligible_sell_ids

----------------------------------------------------------------------------
(* Properties of the matcher over malformed rows *)

Malformed(i) ==
    \/ txs[i].transaction_date = Null
    \/ txs[i].shares <= 0
    \/ (txs[i].net_amount = Null /\ txs[i].total_value = Null)

(* C27: a matcher run never raises because of a malformed buy or sell row: *)
(* a row with a null date or a non-positive share count gets no Match row, *)
(* a row without net amount and total value is valued at price x shares,   *)
(* and the run completes.                                                  *)
MalformedRowNeverRaises ==
    /\ last.op = "match" => ~last.raised
    /\ \A k \in 1..Len(matches) :
          \A i \in {matches[k].buy_transaction_id, matches[k].sell_transaction_id} :
              /\ txs[i].transaction_date # Null
              /\ txs[i].shares > 0
    /\ \A k \in 1..Len(matches) :
          LET b == txs[matches[k].buy_transaction_id]
          IN  (b.net_amount = Null /\ b.total_value = Null)
                  => matches[k].allocated_cost
                        = RMul(RDiv(RInt(Abs(Val(b.price_per_share) * b.shares)),
                                    RInt(b.shares)),
                               RInt(matches[k].shares))

(* A run raised on a row without amounts while a well-formed buy and a    *)
(* well-formed sell were waiting to be matched                             *)
MatcherRaisedOnMissingAmounts ==
    /\ last.op = "match"
    /\ last.raised
    /\ \E b, s \in TxIds :
          /\ ~Malformed(b) /\ txs[b].transaction_type = "buy"
          /\ ~Malformed(s) /\ txs[s].transaction_type = "sell"
          /\ MatchedToBuy(matches, b) = 0

(* The run never stops over a row without a date or without shares *)
UndatedAndEmptyRowsAreSkipped ==
    /\ (last.op = "match" /\ last.raised)
          => \E i \in TxIds : txs[i].net_amount = Null /\ txs[i].total_value = Null
    /\ \A k \in 1..Len(matches) :
          \A i \in {matches[k].buy_transaction_id, matches[k].sell_transaction_id} :
              /\ txs[i].transaction_date # Null
              /\ txs[i].shares # 0

----------------------------------------------------------------------------
(* Properties of the allocated amounts *)

(* The monetary magnitude of a row: |net amount|, else |total value|, else *)
(* price x shares                                                          *)
Magnitude(row) ==
    IF row.net_amount # Null THEN RInt(Abs(Val(row.net_amount)))
    ELSE IF row.total_value # Null THEN RInt(Abs(Val(row.total_value)))
    ELSE RInt(Abs(Val(row.price_per_share) * row.shares))

PerShare(row) == RDiv(Magnitude(row), RInt(Abs(row.shares)))

AllocatedCosts(b) ==
    RSum([k \in 1..Len(matches) |->
            IF matches[k].buy_transaction_id = b
            THEN matches[k].allocated_cost ELSE RZero])

(* C28: every Match row carries allocated_cost = (magnitude of the buy /   *)
(* shares of the buy) x matched shares and allocated_proceeds = (magnitude *)
(* of the sell / shares of the sell) x matched shares, the magnitude being *)
(* the absolute net amount if present, else the absolute total value, else *)
(* price x shares; the allocated costs of a fully matched buy sum to its   *)
(* cost basis.                                                             *)
AllocatedAmountsPerShare ==
    /\ \A k \in 1..Len(matches) :
          LET m == matches[k]
          IN  /\ m.allocated_cost
                    = RMul(PerShare(txs[m.buy_transaction_id]), RInt(m.shares))
              /\ m.allocated_proceeds
                    = RMul(PerShare(txs[m.sell_transaction_id]), RInt(m.shares))
    /\ \A b \in TxIds :
          (/\ txs[b].transaction_type = "buy"
           /\ MatchedToBuy(matches, b) > 0
           /\ MatchedToBuy(matches, b) = Abs(txs[b].shares))
              => AllocatedCosts(b) = Magnitude(txs[b])

(* A buy whose net amount differs from its total value is fully matched by *)
(* two Match rows                                                          *)
AllocatedAmountsPerShareWitness ==
    \E b \in TxIds :
        /\ txs[b].transaction_type = "buy"
        /\ txs[b].net_amount # Null
        /\ txs[b].total_value # Null
        /\ Abs(Val(txs[b].net_amount)) # Abs(Val(txs[b].total_value))
        /\ MatchedToBuy(matches, b) = Abs(txs[b].shares)
        /\ Cardinality({k \in 1..Len(matches) :
                           matches[k].buy_transaction_id = b}) = 2

----------------------------------------------------------------------------
(* Properties of the shares of an allocation *)

(* The eligible segments of the dividend at position p of the last run, in *)
(* (buy date, sell date or open last) order                                *)
EligibleAt(p) ==
    EligibleSegments(SegmentsAt(p),
                     Val(txs[last.dividend_rows[p]].transaction_date),
                     PreviousInRun(p))

SegmentShares(segs, n) == ISum([j \in 1..n |-> segs[j].shares])

(* The shares to distribute: min(declared, eligible) when a positive share *)
(* count is declared, the eligible sum otherwise                           *)
SharesToDistribute(d, segs) ==
    IF Abs(txs[d].shares) > 0
    THEN Min(Abs(txs[d].shares), SegmentShares(segs, Len(segs)))
    ELSE SegmentShares(segs, Len(segs))

(* What segment i receives once the segments before it are filled *)
SharesReceived(d, segs, i) ==
    Min(segs[i].shares,
        Max(0, SharesToDistribute(d, segs) - SegmentShares(segs, i - 1)))

ReceivedByBuy(d, segs, b) ==
    ISum([i \in 1..Len(segs) |->
            IF segs[i].buy_transaction_id = b
            THEN SharesReceived(d, segs, i) ELSE 0])

AllocatedShares(d, b) ==
    ISum([k \in 1..Len(allocs) |->
            IF k \in AllocIndexes(d) /\ allocs[k].buy_transaction_id = b
            THEN allocs[k].shares ELSE 0])

(* C29: the shares over the rows of a dividend that a run allocated total  *)
(* min(declared share count, sum of the eligible segments' shares) when a  *)
(* positive share count is declared and the eligible sum otherwise; the    *)
(* eligible segments are filled in (buy date, sell date or open last)      *)
(* order, each receiving min(segment shares, shares still to distribute),  *)
(* so that a buy's row carries what its segments receive and a later       *)
(* segment receives shares only after every earlier one is fully used.     *)
SharesFillSegmentsInOrder ==
    AllocatorRan =>
        \A p \in ProcessedPositions :
            LET d == last.dividend_rows[p]
            IN  txs[d].allocated =>
                  \E segs \in {EligibleAt(p)} :
                    /\ ISum([k \in 1..Len(allocs) |->
                               IF k \in AllocIndexes(d) THEN allocs[k].shares ELSE 0])
                          = SharesToDistribute(d, segs)
                    /\ \A b \in TxIds :
                          AllocatedShares(d, b) = ReceivedByBuy(d, segs, b)
                    /\ \A k \in AllocIndexes(d) : allocs[k].shares > 0
                    /\ \A i, j \in 1..Len(segs) :
                          (i < j /\ SharesReceived(d, segs, j) > 0)
                              => SharesReceived(d, segs, i) = segs[i].shares

(* A run allocated a dividend that declares fewer shares than the eligible *)
(* segments hold: the first buy's segment is filled, the second buy's      *)
(* segment receives a part of its shares                                   *)
SharesFillSegmentsInOrderWitness ==
    /\ AllocatorRan
    /\ \E p \in ProcessedPositions :
          LET d == last.dividend_rows[p]
              segs == EligibleAt(p)
          IN  /\ txs[d].allocated
              /\ Abs(txs[d].shares) > 0
              /\ Abs(txs[d].shares) < SegmentShares(segs, Len(segs))
              /\ \E i, j \in 1..Len(segs) :
                    /\ i < j
                    /\ segs[i].buy_transaction_id # segs[j].buy_transaction_id
                    /\ SharesReceived(d, segs, j) > 0
                    /\ SharesReceived(d, segs, j) < segs[j].shares
                    /\ AllocatedShares(d, segs[j].buy_transaction_id)
                          = SharesReceived(d, segs, j)

----------------------------------------------------------------------------
(* Properties of the root search *)

SearchDone == Searching("done")

(* C30: _xirr_from_cashflows terminates on every input within its caps: at *)
(* most 60 doublings of the upper bound, none once it has reached 1e6, at  *)
(* most one pass over the scan points and at most 200 bisection steps,     *)
(* after which it returns the midpoint of the final bracket or None.       *)
SearchReturnsMidpointOrNone ==
    /\ last.attempts <= MaxAttempts
    /\ last.attempts > 0 => HighBelowLimit(last.attempts - 1)
    /\ last.scan_at <= ScanPointCount + 1
    /\ last.steps <= BisectionSteps
    /\ SearchDone => last.outcome \in {"midpoint", "none"}

(* The caps alone: they hold of every search, however it ends *)
SearchStaysWithinCaps ==
    /\ last.attempts <= MaxAttempts
    /\ last.attempts > 0 => HighBelowLimit(last.attempts - 1)
    /\ last.scan_at <= ScanPointCount + 1
    /\ last.steps <= BisectionSteps
    /\ SearchDone =>
          last.outcome \in {"midpoint", "none", "scan_point",
                            "ZeroDivisionError", "OverflowError"}

(* Every search ends, by a return or by an exception *)
SearchEnds == <>SearchDone

(* The search raised ZeroDivisionError in npv(low); it raised              *)
(* OverflowError while doubling; it returned a scan point; it used all its *)
(* bisection steps                                                         *)
SearchRaisedAtLow == SearchDone /\ last.outcome = "ZeroDivisionError"
SearchRaisedWhileDoubling == SearchDone /\ last.outcome = "OverflowError"
SearchReturnedScanPoint == SearchDone /\ last.outcome = "scan_point"
SearchUsedAllSteps ==
    SearchDone /\ last.steps = BisectionSteps /\ last.outcome = "midpoint"

====
